---- MODULE Spec2Model ----
(***************************************************************************)
(* BOL completion and ground-inventory consumption of wtnn-app-backend.    *)
(*                                                                         *)
(* The stores are the three MongoDB collections the workflow touches       *)
(* (BOL, GroundInventoryLot, GroundInventoryAllocation).  Every request    *)
(* handler is a process whose steps are the storage calls it awaits: one   *)
(* action per await, so that handlers of concurrent requests interleave    *)
(* exactly where the Node event loop can interleave them.                  *)
(***************************************************************************)
EXTENDS Integers, Sequences, FiniteSets, TLC

\* ---------------------------------------------------------------- bounds
\* Largest weight a request body carries.
MaxWeight == 2

\* ------------------------------------------------------------- constants
\* JS null / undefined for a numeric field.
NULL == -1
\* JS null for a lot reference.
NoLot == 0

Procs == {"p1", "p2"}
BolIds == {1, 2, 3}
LotIds == {1, 2, 3, 4}
Weights == 0..MaxWeight

\* --------------------------------------------------------------- state
VARIABLES
    bols,         \* BOL collection: id -> document
    lots,         \* GroundInventoryLot collection: id -> document
    allocations,  \* GroundInventoryAllocation collection, in insertion order
    inv,          \* PUT /:id/complete invocations
    upd,          \* the PUT /:id request
    del,          \* the DELETE /:id request
    crt,          \* the POST / request
    adj,          \* the PUT /adjustments/:id request
    adjc,         \* the POST /adjustments request
    adjd,         \* the DELETE /adjustments/:id request
    rel,          \* PUT /:id/release-empty invocations
    railcars,     \* Railcar collection: id -> document
    lotIndexes    \* indexes MongoDB has built on the lot collection

vars ==
    <<bols, lots, allocations, inv, upd, del, crt, adj, adjc, adjd, rel, railcars,
      lotIndexes>>

\* A reference that is not set (JS null / undefined for an ObjectId).
NoOrder == 0

\* ----------------------------------------------- Number division by 2000
\* this.netWeight / 2000 is a division of IEEE-754 binary64 numbers: the
\* result is the 53-bit significand nearest to the exact quotient.  A ton
\* weight is kept as the exact value it stands for,
\*     (num * 2^scale + err) / (TonDivisor * 2^scale),
\* where err is the rounding error of the division in units of the last
\* place of the significand, scaled by TonDivisor.
TonDivisor == 2000
SignificandBits == 53

NoTon == [num |-> NULL, err |-> 0, scale |-> 0]

RECURSIVE BitLength(_)
BitLength(n) == IF n = 0 THEN 0 ELSE 1 + BitLength(n \div 2)

\* Binary long division: one quotient bit per step until the quotient has
\* SignificandBits bits, then round to nearest, ties to even.
RECURSIVE LongDivide(_, _, _, _)
LongDivide(len, last, rem, scale) ==
    IF len >= SignificandBits
    THEN [scale |-> scale,
          err |-> IF 2 * rem > TonDivisor \/ (2 * rem = TonDivisor /\ last = 1)
                  THEN TonDivisor - rem ELSE 0 - rem]
    ELSE LET bit == IF 2 * rem >= TonDivisor THEN 1 ELSE 0
         IN  LongDivide(IF len > 0 \/ bit = 1 THEN len + 1 ELSE 0, bit,
                        2 * rem - TonDivisor * bit, scale + 1)

\* n / 2000 for a weight n >= 0.
DivideBy2000(n) ==
    IF n = 0 THEN [num |-> 0, err |-> 0, scale |-> 0]
    ELSE LET d == LongDivide(BitLength(n \div TonDivisor), (n \div TonDivisor) % 2,
                             n % TonDivisor, 0)
         IN  [num |-> n, err |-> d.err, scale |-> d.scale]

RECURSIVE Pow2(_)
Pow2(e) == IF e <= 0 THEN 1 ELSE 2 * Pow2(e - 1)

\* t * 2000 = n in binary64: the exact product num + err / 2^scale is
\* rounded to the nearest significand, and that is n when the error is at
\* most half a unit in the last place of n (a tie goes to n, whose
\* significand is even; below a power of two the unit is halved).
TimesDivisorIs(t, n) ==
    /\ t.num = n
    /\ \/ n = 0
       \/ LET e == t.scale + BitLength(n) - (SignificandBits + 1)
              half == IF t.err < 0 /\ Pow2(BitLength(n) - 1) = n
                      THEN Pow2(e - 1) ELSE Pow2(e)
          IN  (IF t.err < 0 THEN 0 - t.err ELSE t.err) <= half

\* ------------------------------------------------------------ documents
NoBolDoc ==
    [exists |-> FALSE, status |-> "Draft", inventorySource |-> "railcar",
     orderNumber |-> NoOrder,
     customerName |-> "", materialName |-> "",
     groundInventoryLot |-> NoLot, secondaryGroundInventoryLot |-> NoLot,
     groundInventoryAllocatedWeight |-> NULL,
     secondaryGroundInventoryAllocatedWeight |-> NULL,
     grossWeight |-> NULL, tareWeight |-> NULL, primaryNetWeight |-> NULL,
     primaryTonWeight |-> NoTon,
     splitLoad |-> FALSE, secondaryRailcarID |-> "",
     secondaryGrossWeight |-> NULL, secondaryTareWeight |-> NULL,
     secondaryNetWeight |-> NULL, secondaryTonWeight |-> NoTon,
     netWeight |-> NULL, tonWeight |-> NoTon,
     railcarID |-> "", railShipmentBolNumber |-> "",
     secondaryRailShipmentBolNumber |-> "", comments |-> ""]

\* The conversionToken of a lot that was not converted from a railcar.
NoToken == <<>>

\* groundInventoryLotSchema.index({conversionToken: 1}, {unique: true,
\* partialFilterExpression: {conversionToken: {$exists: true, $type:
\* 'string', $ne: ''}}}). mongoose asks MongoDB to build it when the model
\* is initialised; MongoDB does not accept $ne in a partial filter
\* expression, the build fails and mongoose reports it on the model's
\* 'index' event, which nothing listens to. A deployment has the index
\* only when it was built some other way, so both outcomes are initial
\* states.
TokenIndex == "conversionToken_1"

NoLotDoc ==
    [exists |-> FALSE, customerName |-> "", materialName |-> "",
     sourceType |-> "railcar_conversion", conversionToken |-> NoToken,
     startingWeight |-> 0, remainingWeight |-> 0, status |-> "available"]

\* Mutant: the combined net weight leaves the secondary leg out.
CombinedNetPrimaryOnly(primaryNet, hasSecondaryWeights, secondaryNet) == primaryNet

\* this.netWeight = this.primaryNetWeight + secondaryNet.
CombinedNet(primaryNet, hasSecondaryWeights, secondaryNet) ==
    primaryNet + (IF hasSecondaryWeights THEN secondaryNet ELSE 0)

\* bolSchema.pre('validate'): the derived weight fields are recomputed from
\* the gross/tare weights on every save().
PreValidate(d) ==
    LET d1 == IF d.inventorySource = "ground"
              THEN [d EXCEPT !.secondaryRailcarID = "",
                             !.railShipmentBolNumber = "",
                             !.secondaryRailShipmentBolNumber = ""]
              ELSE [d EXCEPT !.secondaryGroundInventoryLot = NoLot,
                             !.secondaryGroundInventoryAllocatedWeight = NULL]
        hasPrimaryWeights == d1.grossWeight # NULL /\ d1.tareWeight # NULL
        hasSecondaryWeights == d1.splitLoad /\ d1.secondaryGrossWeight # NULL
                               /\ d1.secondaryTareWeight # NULL
        primaryNet == IF hasPrimaryWeights
                      THEN d1.grossWeight - d1.tareWeight ELSE NULL
        secondaryNet == IF hasSecondaryWeights
                        THEN d1.secondaryGrossWeight - d1.secondaryTareWeight
                        ELSE NULL
        net == IF hasPrimaryWeights
               THEN CombinedNet(primaryNet, hasSecondaryWeights, secondaryNet)
               ELSE NULL
    IN  [d1 EXCEPT !.primaryNetWeight = primaryNet,
                   !.primaryTonWeight = IF hasPrimaryWeights
                                        THEN DivideBy2000(primaryNet) ELSE NoTon,
                   !.secondaryNetWeight = secondaryNet,
                   !.secondaryTonWeight = IF hasSecondaryWeights
                                          THEN DivideBy2000(secondaryNet) ELSE NoTon,
                   !.netWeight = net,
                   !.tonWeight = IF hasPrimaryWeights
                                 THEN DivideBy2000(net) ELSE NoTon]

\* document.save() of a document loaded earlier: only the paths whose value
\* differs from the loaded one are $set; the others keep their stored value.
SaveModified(stored, loaded, doc) ==
    [f \in DOMAIN stored |->
        IF doc[f] # loaded[f] THEN doc[f] ELSE stored[f]]

\* ------------------------------------------------------------ responses
NoRes == [status |-> 0, message |-> ""]
Res(s, m) == [status |-> s, message |-> m]

\* ------------------------------------------------- InventoryLedger reads
\* Mutant: an archived lot passes the check.
EnsureUsableArchived(lotId, customerId, materialId) ==
    IF lotId = NoLot THEN "lot required"
    ELSE IF ~lots[lotId].exists THEN "lot not found"
    ELSE IF lots[lotId].customerName # customerId THEN "wrong customer"
    ELSE IF lots[lotId].materialName # materialId THEN "wrong material"
    ELSE IF lots[lotId].remainingWeight <= 0 THEN "lot not available"
    ELSE "ok"

\* ensureGroundInventoryLotIsUsable: "ok" or the rejection message.
EnsureUsable(lotId, customerId, materialId) ==
    IF lotId = NoLot THEN "lot required"
    ELSE IF ~lots[lotId].exists THEN "lot not found"
    ELSE IF lots[lotId].customerName # customerId THEN "wrong customer"
    ELSE IF lots[lotId].materialName # materialId THEN "wrong material"
    ELSE IF lots[lotId].status = "archived" \/ lots[lotId].remainingWeight <= 0
         THEN "lot not available"
    ELSE "ok"

\* Mutant: the filter asks for an available lot.
ConsumeFilterAvailable(lotId, customerId, materialId) ==
    /\ lotId \in LotIds
    /\ lots[lotId].exists
    /\ lots[lotId].customerName = customerId
    /\ lots[lotId].materialName = materialId
    /\ lots[lotId].status = "available"

\* The filter shared by findOne and findOneAndUpdate in
\* consumeGroundInventoryLot (without the remainingWeight guard).
ConsumeFilter(lotId, customerId, materialId) ==
    /\ lotId \in LotIds
    /\ lots[lotId].exists
    /\ lots[lotId].customerName = customerId
    /\ lots[lotId].materialName = materialId
    /\ lots[lotId].status \in {"available", "depleted"}

\* Mutant: the decrement is not conditional on the remaining weight.
ConsumeGuardUnconditional(lotId, customerId, materialId, consumeWeight) ==
    ConsumeFilter(lotId, customerId, materialId)

\* The guard of the atomic decrement: remainingWeight: { $gte: consumeWeight }.
ConsumeGuard(lotId, customerId, materialId, consumeWeight) ==
    /\ ConsumeFilter(lotId, customerId, materialId)
    /\ lots[lotId].remainingWeight >= consumeWeight

\* Mutant: the update sets the status and leaves the weight alone.
DecrementStatusOnly(lot, consumeWeight) ==
    [lot EXCEPT !.status = "available"]

\* The update of the atomic decrement.
Decrement(lot, consumeWeight) ==
    [lot EXCEPT !.remainingWeight = lot.remainingWeight - consumeWeight,
                !.status = "available"]

\* restore: findByIdAndUpdate(id, {$inc: {remainingWeight: w}, $set: {status}}).
\* A missing lot matches nothing.
Restore(lotId, weight) ==
    IF lots[lotId].exists
    THEN [lots EXCEPT ![lotId].remainingWeight = lots[lotId].remainingWeight + weight,
                      ![lotId].status = "available"]
    ELSE lots

\* ------------------------------------------------------------ railcars
RailcarIds == {1, 2, 3, 4}

NoRailcarDoc ==
    [exists |-> FALSE, customerName |-> "", materialName |-> "",
     railcarID |-> "", railcarBolNumber |-> "", reportedWeight |-> NULL,
     currentStatus |-> "Inbound", isActive |-> TRUE]

\* Customer.enableGroundInventory.
enableGroundInventory(customerId) == customerId = "c1"

\* customerIdFromToken of the customer user who sends requests.
tokenCustomerId == "c1"

\* The $ifNull chains of the unload aggregate.
PrimaryEntryNet(b) ==
    IF b.primaryNetWeight # NULL THEN b.primaryNetWeight
    ELSE IF b.netWeight # NULL THEN b.netWeight
    ELSE IF b.grossWeight # NULL /\ b.tareWeight # NULL
    THEN b.grossWeight - b.tareWeight ELSE 0

SecondaryEntryNet(b) ==
    IF b.secondaryNetWeight # NULL THEN b.secondaryNetWeight
    ELSE IF b.secondaryGrossWeight # NULL /\ b.secondaryTareWeight # NULL
    THEN b.secondaryGrossWeight - b.secondaryTareWeight ELSE 0

\* unloadedWeight of fetchRailcarsWithComputedWeights: the net weights of
\* the Completed BOLs of the customer whose primary or secondary railcar
\* entry carries the railcar id and the shipment number.
RECURSIVE UnloadedWeight(_, _, _, _)
UnloadedWeight(B, railcarID, customerId, shipment) ==
    IF B = {} THEN 0
    ELSE LET id == CHOOSE x \in B : TRUE
             b == bols[id]
             counted == b.exists /\ b.status = "Completed"
                        /\ b.customerName = customerId
         IN  (IF counted /\ b.railcarID = railcarID
                 /\ b.railShipmentBolNumber = shipment
              THEN PrimaryEntryNet(b) ELSE 0)
             + (IF counted /\ b.secondaryRailcarID = railcarID
                   /\ b.secondaryRailShipmentBolNumber = shipment
                THEN SecondaryEntryNet(b) ELSE 0)
             + UnloadedWeight(B \ {id}, railcarID, customerId, shipment)

\* remainingWeight of fetchRailcarsWithComputedWeights, as release-empty
\* reads it: Number(scopedWithWeight?.remainingWeight || 0).
RailcarRemainingWeight(railcar, unloadedWeight) ==
    IF railcar.reportedWeight # NULL /\ railcar.reportedWeight > 0
    THEN IF railcar.reportedWeight - unloadedWeight > 0
         THEN railcar.reportedWeight - unloadedWeight ELSE 0
    ELSE 0

\* buildGroundConversionToken: the four identifiers joined with '|'.
buildGroundConversionToken(customerId, railcarId, railShipmentBolNumber, railcarDocId) ==
    <<customerId, railcarId, railShipmentBolNumber, railcarDocId>>

\* findActiveRailcarShipmentBol.
findActiveRailcarShipmentBol(customerId, railcarID) ==
    IF customerId = "" \/ railcarID = "" THEN ""
    ELSE LET found == {r \in RailcarIds :
                          /\ railcars[r].exists /\ railcars[r].isActive
                          /\ railcars[r].customerName = customerId
                          /\ railcars[r].railcarID = railcarID}
         IN  IF found = {} THEN ""
             ELSE railcars[CHOOSE r \in found : TRUE].railcarBolNumber

\* ------------------------------------------------ PUT /:id/complete
\* new Date(req.body.weighInTime) of a body whose time does not parse.
InvalidDate == "Invalid Date"

CompleteBodies ==
    [grossWeight : Weights, tareWeight : Weights, splitLoad : {FALSE},
     secondaryGrossWeight : {NULL}, secondaryRailcarID : {""},
     weighInTime : {"t1"}, secondaryTareWeight : {NULL}]
    \cup
    [grossWeight : Weights, tareWeight : Weights, splitLoad : {TRUE},
     secondaryGrossWeight : {NULL, 0, MaxWeight + 1}, secondaryRailcarID : {"R2"},
     weighInTime : {"t1"}, secondaryTareWeight : {NULL}]
    \cup
    [grossWeight : {MaxWeight}, tareWeight : {0}, splitLoad : {FALSE},
     secondaryGrossWeight : {NULL}, secondaryRailcarID : {""},
     weighInTime : {InvalidDate}, secondaryTareWeight : {NULL}]
    \cup
    [grossWeight : {MaxWeight}, tareWeight : {1}, splitLoad : {TRUE},
     secondaryGrossWeight : {MaxWeight + 1}, secondaryRailcarID : {"R2"},
     weighInTime : {"t1"}, secondaryTareWeight : {MaxWeight + 1}]

IdleInv ==
    [pc |-> "idle", id |-> 1, body |-> CHOOSE b \in CompleteBodies : TRUE,
     loaded |-> NoBolDoc, bol |-> NoBolDoc,
     consumedPrimaryWeight |-> NULL, consumedSecondaryWeight |-> NULL,
     consumedPrimaryLot |-> NoLot, consumedSecondaryLot |-> NoLot,
     res |-> NoRes]

\* Locals of the handler, as functions of the loaded document and the body.
splitLoad(p) == inv[p].body.splitLoad
inventorySource(p) == inv[p].bol.inventorySource
groundInventoryLotId(p) == inv[p].bol.groundInventoryLot
secondaryGroundInventoryLotId(p) == inv[p].bol.secondaryGroundInventoryLot
primaryGrossWeight(p) == inv[p].body.grossWeight
primaryTareWeight(p) == inv[p].body.tareWeight
secondaryGrossWeight(p) == IF splitLoad(p) THEN inv[p].body.secondaryGrossWeight ELSE NULL
\* Mutant: a secondary tare weight in the body is used.
secondaryTareWeightSupplied(p) ==
    IF ~splitLoad(p) THEN NULL
    ELSE IF inv[p].body.secondaryTareWeight # NULL
    THEN inv[p].body.secondaryTareWeight
    ELSE primaryGrossWeight(p)

\* secondaryTareWeight = primaryGrossWeight; req.body.secondaryTareWeight is
\* never read.
secondaryTareWeight(p) == IF splitLoad(p) THEN primaryGrossWeight(p) ELSE NULL

\* The handler returns after it has written something: its locals are kept
\* as the record of what the invocation did.
Finish(p, r) == inv' = [inv EXCEPT ![p].pc = "done", ![p].res = r]
\* The handler returns before its first write: only the response is left.
Reject(p, id, r) ==
    inv' = [inv EXCEPT ![p] = [IdleInv EXCEPT !.pc = "done", !.id = id, !.res = r]]
Goto(p, l) == inv' = [inv EXCEPT ![p].pc = l]

\* The synchronous checks between the lot usability reads and the first
\* write: "ok" or the rejection message.
ValidateCompletion(p) ==
    IF inventorySource(p) # "ground" /\ splitLoad(p)
       /\ inv[p].body.secondaryRailcarID = ""
    THEN "secondary railcar required"
    ELSE IF inventorySource(p) # "ground" /\ splitLoad(p)
       /\ inv[p].body.secondaryRailcarID = inv[p].bol.railcarID
    THEN "secondary railcar must differ"
    ELSE IF splitLoad(p) /\ inv[p].body.secondaryGrossWeight = NULL
    THEN "secondary gross weight required"
    ELSE IF primaryGrossWeight(p) < 0 \/ primaryTareWeight(p) < 0
    THEN "primary weights negative"
    ELSE IF primaryGrossWeight(p) < primaryTareWeight(p)
    THEN "primary gross below tare"
    ELSE IF inv[p].body.weighInTime = InvalidDate
    THEN "weigh times invalid"
    ELSE IF splitLoad(p) /\ secondaryGrossWeight(p) < secondaryTareWeight(p)
    THEN "secondary gross below tare"
    ELSE "ok"

\* After the checks: the consumed weights are computed and the handler
\* goes on to consume (ground) or to save (railcar).
AfterChecks(p) ==
    LET msg == ValidateCompletion(p)
        cp == primaryGrossWeight(p) - primaryTareWeight(p)
        cs == IF splitLoad(p)
              THEN secondaryGrossWeight(p) - secondaryTareWeight(p) ELSE 0
    IN  IF msg # "ok" THEN Reject(p, inv[p].id, Res(400, msg))
        ELSE IF inventorySource(p) = "ground"
        THEN IF cp < 0 \/ cs < 0 \/ cp + cs < 0
             THEN Reject(p, inv[p].id, Res(400, "negative consumption"))
             ELSE inv' = [inv EXCEPT ![p].pc = "consumePrimary",
                                     ![p].consumedPrimaryWeight = cp,
                                     ![p].consumedSecondaryWeight = cs]
        ELSE Goto(p, "save")

\* ------------------------------------------------------------- orders
OrderIds == {1, 2}

NoOrderDoc == [exists |-> FALSE, customerName |-> "", materialName |-> ""]

\* The Order collection: order 1 carries every reference, order 2 has no
\* material.
Orders ==
    [o \in OrderIds |->
        IF o = 1 THEN [exists |-> TRUE, customerName |-> "c1", materialName |-> "m1"]
        ELSE [exists |-> TRUE, customerName |-> "c1", materialName |-> ""]]

\* requiredRefFields.filter((field) => !bol[field]) is not empty.
MissingRefFields(bol) == bol.customerName = "" \/ bol.materialName = ""

\* The references the linked Order supplies to the in-memory document.
Backfill(bol, linkedOrder) ==
    IF ~linkedOrder.exists THEN bol
    ELSE [bol EXCEPT
            !.customerName = IF @ = "" THEN linkedOrder.customerName ELSE @,
            !.materialName = IF @ = "" THEN linkedOrder.materialName ELSE @]

\* Mutant: no status lock.
LockedNever(bol) == FALSE

\* The status lock of complete, update and delete.
Locked(bol) == bol.status = "Completed"

\* BOL.findById and the status lock.
CompleteFindBol(p) ==
    /\ inv[p].pc = "idle"
    /\ \E id \in BolIds, body \in CompleteBodies :
          LET bol == bols[id] IN
          IF ~bol.exists
          THEN Reject(p, id, Res(404, "BOL not found"))
          ELSE IF Locked(bol)
          THEN Reject(p, id, Res(400, "locked"))
          ELSE IF MissingRefFields(bol) /\ bol.orderNumber = NoOrder
          THEN Reject(p, id, Res(400, "missing required fields"))
          ELSE inv' = [inv EXCEPT ![p].pc = IF MissingRefFields(bol)
                                            THEN "backfill" ELSE "checks",
                                  ![p].id = id, ![p].body = body,
                                  ![p].loaded = bol, ![p].bol = bol]
    /\ UNCHANGED <<bols, lots, allocations, upd, del, crt, adj, adjc, adjd, rel, railcars, lotIndexes>>

\* Mutant: the backfilled references are written to the stored BOL at once.
BackfillStoredAtOnce(id, bol) == [bols EXCEPT ![id] = bol]

\* The BOL collection after the backfill: the references are set on the
\* in-memory document only.
BackfillStored(id, bol) == bols

\* Order.findById and the backfill of the missing references.
CompleteBackfill(p) ==
    /\ inv[p].pc = "backfill"
    /\ LET linkedOrder == IF inv[p].bol.orderNumber \in OrderIds
                          THEN Orders[inv[p].bol.orderNumber] ELSE NoOrderDoc
           bol == Backfill(inv[p].bol, linkedOrder)
       IN  /\ bols' = BackfillStored(inv[p].id, bol)
           /\ IF MissingRefFields(bol)
              THEN Reject(p, inv[p].id, Res(400, "missing required fields"))
              ELSE inv' = [inv EXCEPT ![p].pc = "checks", ![p].bol = bol]
    /\ UNCHANGED <<lots, allocations, upd, del, crt, adj, adjc, adjd, rel, railcars, lotIndexes>>

\* ensureGroundInventoryLotIsUsable on the primary lot (ground source);
\* a railcar-source BOL goes straight to the synchronous checks.
CompleteCheckPrimaryLot(p) ==
    /\ inv[p].pc = "checks"
    /\ IF inventorySource(p) = "ground"
       THEN LET msg == EnsureUsable(groundInventoryLotId(p),
                                    inv[p].bol.customerName, inv[p].bol.materialName)
            IN  IF msg # "ok" THEN Reject(p, inv[p].id, Res(400, msg))
                ELSE IF splitLoad(p)
                THEN IF secondaryGroundInventoryLotId(p) = NoLot
                     THEN Reject(p, inv[p].id, Res(400, "secondary lot required"))
                     ELSE IF secondaryGroundInventoryLotId(p) = groundInventoryLotId(p)
                     THEN Reject(p, inv[p].id, Res(400, "lots must differ"))
                     ELSE Goto(p, "checkSecondaryLot")
                ELSE AfterChecks(p)
       ELSE AfterChecks(p)
    /\ UNCHANGED <<bols, lots, allocations, upd, del, crt, adj, adjc, adjd, rel, railcars, lotIndexes>>

\* ensureGroundInventoryLotIsUsable on the secondary lot (split ground).
CompleteCheckSecondaryLot(p) ==
    /\ inv[p].pc = "checkSecondaryLot"
    /\ LET msg == EnsureUsable(secondaryGroundInventoryLotId(p),
                               inv[p].bol.customerName, inv[p].bol.materialName)
       IN  IF msg # "ok" THEN Reject(p, inv[p].id, Res(400, msg)) ELSE AfterChecks(p)
    /\ UNCHANGED <<bols, lots, allocations, upd, del, crt, adj, adjc, adjd, rel, railcars, lotIndexes>>

\* Where the handler goes once the primary lot is consumed.
AfterPrimary(p) == IF splitLoad(p) THEN "consumeSecondary" ELSE "save"

\* consumeGroundInventoryLot on the primary lot: the zero-weight findOne or
\* the atomic conditional decrement.
CompleteConsumePrimary(p) ==
    /\ inv[p].pc = "consumePrimary"
    /\ LET l == groundInventoryLotId(p)
           c == inv[p].bol.customerName
           m == inv[p].bol.materialName
           w == inv[p].consumedPrimaryWeight
       IN  IF w = 0
           THEN /\ IF ConsumeFilter(l, c, m)
                   THEN inv' = [inv EXCEPT ![p].consumedPrimaryLot = l,
                                           ![p].pc = AfterPrimary(p)]
                   ELSE Reject(p, inv[p].id, Res(400, "primary consume failed"))
                /\ lots' = lots
           ELSE IF ConsumeGuard(l, c, m, w)
           THEN LET lot == Decrement(lots[l], w) IN
                /\ lots' = [lots EXCEPT ![l] = lot]
                /\ IF lot.remainingWeight <= 0 /\ lot.status # "depleted"
                   THEN Goto(p, "primaryStatus")
                   ELSE inv' = [inv EXCEPT ![p].consumedPrimaryLot = l,
                                           ![p].pc = AfterPrimary(p)]
           ELSE /\ Reject(p, inv[p].id, Res(400, "primary consume failed"))
                /\ lots' = lots
    /\ UNCHANGED <<bols, allocations, upd, del, crt, adj, adjc, adjd, rel, railcars, lotIndexes>>

\* The storage call of the primary consume throws: nothing was written.
CompleteConsumePrimaryThrows(p) ==
    /\ inv[p].pc = "consumePrimary"
    /\ Reject(p, inv[p].id, Res(500, "primary consume threw"))
    /\ UNCHANGED <<bols, lots, allocations, upd, del, crt, adj, adjc, adjd, rel, railcars, lotIndexes>>

\* lot.status = 'depleted'; await lot.save() after the primary decrement.
CompletePrimaryStatus(p) ==
    /\ inv[p].pc = "primaryStatus"
    /\ lots[groundInventoryLotId(p)].exists
    /\ lots' = [lots EXCEPT ![groundInventoryLotId(p)].status = "depleted"]
    /\ inv' = [inv EXCEPT ![p].consumedPrimaryLot = groundInventoryLotId(p),
                          ![p].pc = AfterPrimary(p)]
    /\ UNCHANGED <<bols, allocations, upd, del, crt, adj, adjc, adjd, rel, railcars, lotIndexes>>

\* That save() throws: the exception leaves consumeGroundInventoryLot and
\* reaches the handler's catch; the decrement stays.
CompletePrimaryStatusThrows(p) ==
    /\ inv[p].pc = "primaryStatus"
    /\ Finish(p, Res(500, "primary status write threw"))
    /\ UNCHANGED <<bols, lots, allocations, upd, del, crt, adj, adjc, adjd, rel, railcars, lotIndexes>>

\* Mutant: a failed secondary consume is answered without the restore.
SecondaryFailedNoRestore(p) ==
    Finish(p, Res(400, "secondary consume failed"))

\* After a failed secondary consume: restore the primary lot when it was
\* debited, else answer at once.
SecondaryFailed(p) ==
    IF inv[p].consumedPrimaryLot # NoLot /\ inv[p].consumedPrimaryWeight > 0
    THEN Goto(p, "restorePrimary")
    ELSE Finish(p, Res(400, "secondary consume failed"))

\* consumeGroundInventoryLot on the secondary lot.
CompleteConsumeSecondary(p) ==
    /\ inv[p].pc = "consumeSecondary"
    /\ LET l == secondaryGroundInventoryLotId(p)
           c == inv[p].bol.customerName
           m == inv[p].bol.materialName
           w == inv[p].consumedSecondaryWeight
       IN  IF w = 0
           THEN /\ IF ConsumeFilter(l, c, m)
                   THEN inv' = [inv EXCEPT ![p].consumedSecondaryLot = l,
                                           ![p].pc = "save"]
                   ELSE SecondaryFailed(p)
                /\ lots' = lots
           ELSE IF ConsumeGuard(l, c, m, w)
           THEN LET lot == Decrement(lots[l], w) IN
                /\ lots' = [lots EXCEPT ![l] = lot]
                /\ IF lot.remainingWeight <= 0 /\ lot.status # "depleted"
                   THEN Goto(p, "secondaryStatus")
                   ELSE inv' = [inv EXCEPT ![p].consumedSecondaryLot = l,
                                           ![p].pc = "save"]
           ELSE /\ SecondaryFailed(p)
                /\ lots' = lots
    /\ UNCHANGED <<bols, allocations, upd, del, crt, adj, adjc, adjd, rel, railcars, lotIndexes>>

\* The storage call of the secondary consume throws: the exception reaches
\* the handler's catch, which restores nothing.
CompleteConsumeSecondaryThrows(p) ==
    /\ inv[p].pc = "consumeSecondary"
    /\ Finish(p, Res(500, "secondary consume threw"))
    /\ UNCHANGED <<bols, lots, allocations, upd, del, crt, adj, adjc, adjd, rel, railcars, lotIndexes>>

CompleteSecondaryStatus(p) ==
    /\ inv[p].pc = "secondaryStatus"
    /\ lots[secondaryGroundInventoryLotId(p)].exists
    /\ lots' = [lots EXCEPT ![secondaryGroundInventoryLotId(p)].status = "depleted"]
    /\ inv' = [inv EXCEPT ![p].consumedSecondaryLot = secondaryGroundInventoryLotId(p),
                          ![p].pc = "save"]
    /\ UNCHANGED <<bols, allocations, upd, del, crt, adj, adjc, adjd, rel, railcars, lotIndexes>>

CompleteSecondaryStatusThrows(p) ==
    /\ inv[p].pc = "secondaryStatus"
    /\ Finish(p, Res(500, "secondary status write threw"))
    /\ UNCHANGED <<bols, lots, allocations, upd, del, crt, adj, adjc, adjd, rel, railcars, lotIndexes>>

\* The compensation of the primary debit after the secondary consume
\* returned ok: false, followed by the 400 response.
CompleteRestorePrimary(p) ==
    /\ inv[p].pc = "restorePrimary"
    /\ lots' = Restore(inv[p].consumedPrimaryLot, inv[p].consumedPrimaryWeight)
    /\ Finish(p, Res(400, "secondary consume failed"))
    /\ UNCHANGED <<bols, allocations, upd, del, crt, adj, adjc, adjd, rel, railcars, lotIndexes>>

\* The in-memory document the handler has built when it calls bol.save().
\* The shipment numbers of a railcar-source BOL are looked up from the
\* railcars as they are stored when the document is saved.
CompleteDoc(p) ==
    LET b == inv[p].bol
        ground == inventorySource(p) = "ground"
    IN  [b EXCEPT
          !.grossWeight = primaryGrossWeight(p),
          !.tareWeight = primaryTareWeight(p),
          !.groundInventoryLot = IF ground THEN groundInventoryLotId(p) ELSE NoLot,
          !.secondaryGroundInventoryLot =
              IF ground /\ splitLoad(p) THEN secondaryGroundInventoryLotId(p) ELSE NoLot,
          !.splitLoad = splitLoad(p),
          !.railcarID = IF ground THEN "" ELSE b.railcarID,
          !.railShipmentBolNumber =
              IF ground THEN ""
              ELSE findActiveRailcarShipmentBol(b.customerName, b.railcarID),
          !.secondaryRailShipmentBolNumber =
              IF ~ground /\ splitLoad(p)
              THEN findActiveRailcarShipmentBol(b.customerName,
                                                inv[p].body.secondaryRailcarID)
              ELSE "",
          !.secondaryRailcarID =
              IF ground THEN ""
              ELSE IF splitLoad(p) THEN inv[p].body.secondaryRailcarID ELSE "",
          !.secondaryGrossWeight = secondaryGrossWeight(p),
          !.secondaryTareWeight = secondaryTareWeight(p),
          !.secondaryNetWeight = NULL,
          !.status = "Completed",
          !.groundInventoryAllocatedWeight =
              IF ground
              THEN inv[p].consumedPrimaryWeight + inv[p].consumedSecondaryWeight
              ELSE NULL,
          !.secondaryGroundInventoryAllocatedWeight =
              IF ground /\ splitLoad(p) THEN inv[p].consumedSecondaryWeight ELSE NULL]

AllocationEntry(l, b, w) ==
    [lotId |-> l, bolId |-> b, allocatedWeight |-> w,
     allocationType |-> "bol_completion"]

\* allocationsToCreate: one entry per leg with a consumed lot and a weight > 0.
allocationsToCreate(p) ==
    (IF inv[p].consumedPrimaryLot # NoLot /\ inv[p].consumedPrimaryWeight > 0
     THEN <<AllocationEntry(inv[p].consumedPrimaryLot, inv[p].id,
                            inv[p].consumedPrimaryWeight)>>
     ELSE <<>>)
    \o
    (IF inv[p].consumedSecondaryLot # NoLot /\ inv[p].consumedSecondaryWeight > 0
     THEN <<AllocationEntry(inv[p].consumedSecondaryLot, inv[p].id,
                            inv[p].consumedSecondaryWeight)>>
     ELSE <<>>)

\* bol.save() succeeds.
CompleteSave(p) ==
    /\ inv[p].pc = "save"
    /\ bols[inv[p].id].exists
    /\ bols' = [bols EXCEPT ![inv[p].id] =
                   SaveModified(bols[inv[p].id], inv[p].loaded, PreValidate(CompleteDoc(p)))]
    /\ IF inventorySource(p) = "ground" /\ Len(allocationsToCreate(p)) > 0
       THEN Goto(p, "insertMany")
       ELSE Finish(p, Res(200, "completed"))
    /\ UNCHANGED <<lots, allocations, upd, del, crt, adj, adjc, adjd, rel, railcars, lotIndexes>>

\* Mutant: the save-failure compensation forgets the secondary lot.
AfterSaveFailedPrimaryOnly(p) ==
    Finish(p, Res(500, "save failed"))

\* Where the save-failure compensation goes after the primary restore.
AfterSaveFailedPrimary(p) ==
    IF inv[p].consumedSecondaryLot # NoLot /\ inv[p].consumedSecondaryWeight > 0
    THEN Goto(p, "restoreSecondaryAfterSave")
    ELSE Finish(p, Res(500, "save failed"))

\* bol.save() throws (storage error, or the document was deleted meanwhile).
CompleteSaveThrows(p) ==
    /\ inv[p].pc = "save"
    /\ IF inventorySource(p) = "ground"
       THEN IF inv[p].consumedPrimaryLot # NoLot /\ inv[p].consumedPrimaryWeight > 0
            THEN Goto(p, "restorePrimaryAfterSave")
            ELSE AfterSaveFailedPrimary(p)
       ELSE Finish(p, Res(500, "save failed"))
    /\ UNCHANGED <<bols, lots, allocations, upd, del, crt, adj, adjc, adjd, rel, railcars, lotIndexes>>

CompleteRestorePrimaryAfterSave(p) ==
    /\ inv[p].pc = "restorePrimaryAfterSave"
    /\ lots' = Restore(inv[p].consumedPrimaryLot, inv[p].consumedPrimaryWeight)
    /\ AfterSaveFailedPrimary(p)
    /\ UNCHANGED <<bols, allocations, upd, del, crt, adj, adjc, adjd, rel, railcars, lotIndexes>>

CompleteRestoreSecondaryAfterSave(p) ==
    /\ inv[p].pc = "restoreSecondaryAfterSave"
    /\ lots' = Restore(inv[p].consumedSecondaryLot, inv[p].consumedSecondaryWeight)
    /\ Finish(p, Res(500, "save failed"))
    /\ UNCHANGED <<bols, allocations, upd, del, crt, adj, adjc, adjd, rel, railcars, lotIndexes>>

\* GroundInventoryAllocation.insertMany succeeds.
CompleteInsertMany(p) ==
    /\ inv[p].pc = "insertMany"
    /\ allocations' = allocations \o allocationsToCreate(p)
    /\ Finish(p, Res(200, "completed"))
    /\ UNCHANGED <<bols, lots, upd, del, crt, adj, adjc, adjd, rel, railcars, lotIndexes>>

\* Mutant: a failed insertMany gives the primary lot its weight back.
CompleteInsertManyThrowsRestores(p) ==
    /\ inv[p].pc = "insertMany"
    /\ lots' = Restore(inv[p].consumedPrimaryLot, inv[p].consumedPrimaryWeight)
    /\ Finish(p, Res(500, "insertMany threw"))
    /\ UNCHANGED <<bols, allocations, upd, del, crt, adj, adjc, adjd, rel, railcars, lotIndexes>>

\* insertMany throws: no compensation, the caller gets a 500.
CompleteInsertManyThrows(p) ==
    /\ inv[p].pc = "insertMany"
    /\ Finish(p, Res(500, "insertMany threw"))
    /\ UNCHANGED <<bols, lots, allocations, upd, del, crt, adj, adjc, adjd, rel, railcars, lotIndexes>>

CompleteNext(P) ==
    \E p \in P :
        \/ CompleteFindBol(p)
        \/ CompleteCheckPrimaryLot(p)
        \/ CompleteCheckSecondaryLot(p)
        \/ CompleteConsumePrimary(p)
        \/ CompleteConsumePrimaryThrows(p)
        \/ CompletePrimaryStatus(p)
        \/ CompletePrimaryStatusThrows(p)
        \/ CompleteConsumeSecondary(p)
        \/ CompleteConsumeSecondaryThrows(p)
        \/ CompleteSecondaryStatus(p)
        \/ CompleteSecondaryStatusThrows(p)
        \/ CompleteRestorePrimary(p)
        \/ CompleteSave(p)
        \/ CompleteSaveThrows(p)
        \/ CompleteRestorePrimaryAfterSave(p)
        \/ CompleteRestoreSecondaryAfterSave(p)
        \/ CompleteInsertMany(p)
        \/ CompleteInsertManyThrows(p)

\* The BOLs stored before any request: 1 and 2.
InitBolExists(b) == b \in {1, 2}

\* ------------------------------------------------------- PUT /:id
\* A field the request body does not carry.
Absent == "absent"

\* A weight field the request body does not carry.
AbsentWeight == 0 - 2

\* A body that carries no field.
EmptyBody ==
    [status |-> Absent, comments |-> Absent, grossWeight |-> AbsentWeight,
     tareWeight |-> AbsentWeight, netWeight |-> AbsentWeight]

UpdateBodies ==
    {[EmptyBody EXCEPT !.status = "Draft"],
     [EmptyBody EXCEPT !.status = "Completed"],
     [EmptyBody EXCEPT !.comments = "edited"]}

\* Bodies that carry weight fields: the route has no validation chain.
WeightUpdateBodies ==
    {[EmptyBody EXCEPT !.grossWeight = g, !.tareWeight = t, !.netWeight = n] :
        g \in {AbsentWeight, 0, MaxWeight}, t \in {AbsentWeight, 1},
        n \in {AbsentWeight, MaxWeight}}

IdleUpd ==
    [pc |-> "idle", id |-> 1, body |-> EmptyBody, res |-> NoRes]

\* BOL.findById and the status lock of update.
UpdateFindOf(Bodies) ==
    /\ upd.pc = "idle"
    /\ \E id \in BolIds, body \in Bodies :
          IF ~bols[id].exists
          THEN upd' = [IdleUpd EXCEPT !.pc = "done", !.res = Res(404, "BOL not found")]
          ELSE IF Locked(bols[id])
          THEN upd' = [IdleUpd EXCEPT !.pc = "done", !.res = Res(400, "locked")]
          ELSE upd' = [IdleUpd EXCEPT !.pc = "findByIdAndUpdate", !.id = id,
                                      !.body = body]
    /\ UNCHANGED <<bols, lots, allocations, inv, del, crt, adj, adjc, adjd, rel, railcars, lotIndexes>>

UpdateFind == UpdateFindOf(UpdateBodies)

UpdateFindWeights == UpdateFindOf(WeightUpdateBodies)

\* findByIdAndUpdate(id, req.body): the body's fields are $set as they are,
\* without validators and without the pre-validate hook.
ApplyBody(doc, body) ==
    [doc EXCEPT !.status = IF body.status = Absent THEN @ ELSE body.status,
                !.comments = IF body.comments = Absent THEN @ ELSE body.comments,
                !.grossWeight = IF body.grossWeight = AbsentWeight THEN @
                                ELSE body.grossWeight,
                !.tareWeight = IF body.tareWeight = AbsentWeight THEN @
                               ELSE body.tareWeight,
                !.netWeight = IF body.netWeight = AbsentWeight THEN @
                              ELSE body.netWeight]

UpdateWrite ==
    /\ upd.pc = "findByIdAndUpdate"
    /\ bols' = IF bols[upd.id].exists
               THEN [bols EXCEPT ![upd.id] = ApplyBody(bols[upd.id], upd.body)]
               ELSE bols
    /\ upd' = [IdleUpd EXCEPT !.pc = "done", !.res = Res(200, "updated")]
    /\ UNCHANGED <<lots, allocations, inv, del, crt, adj, adjc, adjd, rel, railcars, lotIndexes>>

\* ----------------------------------------------------- DELETE /:id
IdleDel == [pc |-> "idle", id |-> 1, res |-> NoRes]

\* BOL.findById and the Draft check of delete.
DeleteFind ==
    /\ del.pc = "idle"
    /\ \E id \in BolIds :
          IF ~bols[id].exists
          THEN del' = [IdleDel EXCEPT !.pc = "done", !.res = Res(404, "BOL not found")]
          ELSE IF bols[id].status # "Draft"
          THEN del' = [IdleDel EXCEPT !.pc = "done", !.res = Res(400, "only Draft")]
          ELSE del' = [IdleDel EXCEPT !.pc = "findByIdAndDelete", !.id = id]
    /\ UNCHANGED <<bols, lots, allocations, inv, upd, crt, adj, adjc, adjd, rel, railcars, lotIndexes>>

DeleteWrite ==
    /\ del.pc = "findByIdAndDelete"
    /\ bols' = [bols EXCEPT ![del.id] = NoBolDoc]
    /\ del' = [IdleDel EXCEPT !.pc = "done", !.res = Res(200, "deleted")]
    /\ UNCHANGED <<lots, allocations, inv, upd, crt, adj, adjc, adjd, rel, railcars, lotIndexes>>

\* ----------------------------------------------------------- POST /
CreateBodies ==
    [status : {"Draft", "Completed"}, inventorySource : {"ground"},
     groundInventoryLot : {1}, secondaryGroundInventoryLot : {2},
     splitLoad : BOOLEAN,
     grossWeight : {NULL, 0, MaxWeight}, tareWeight : {NULL, 1}]

IdleCrt ==
    [pc |-> "idle", body |-> CHOOSE b \in CreateBodies : TRUE, res |-> NoRes]

\* The synchronous checks of create: "ok" or the rejection message.
ValidateCreate(body) ==
    IF body.status = "Completed"
       /\ (body.grossWeight = NULL \/ body.tareWeight = NULL)
    THEN "missing completion field"
    ELSE IF body.grossWeight # NULL /\ body.tareWeight # NULL
            /\ body.grossWeight < body.tareWeight
    THEN "primary gross below tare"
    ELSE "ok"

\* bolData as the handler has normalised it when it calls save().
CreateDoc(body) ==
    LET ground == body.inventorySource = "ground" IN
    [NoBolDoc EXCEPT
        !.exists = TRUE,
        !.status = body.status,
        !.inventorySource = body.inventorySource,
        !.customerName = "c1", !.materialName = "m1",
        !.groundInventoryLot = body.groundInventoryLot,
        !.secondaryGroundInventoryLot =
            IF ground /\ body.splitLoad THEN body.secondaryGroundInventoryLot
            ELSE NoLot,
        !.splitLoad = body.splitLoad,
        !.grossWeight = body.grossWeight,
        !.tareWeight = body.tareWeight,
        !.railcarID = IF ground THEN "" ELSE "R1"]

\* The synchronous checks and ensureGroundInventoryLotIsUsable on the
\* primary lot.
CreateCheckPrimaryLotOf(Bodies) ==
    /\ crt.pc = "idle"
    /\ \E body \in Bodies :
          LET msg == ValidateCreate(body)
              use == EnsureUsable(body.groundInventoryLot, "c1", "m1")
          IN  IF msg # "ok"
              THEN crt' = [IdleCrt EXCEPT !.pc = "done", !.res = Res(400, msg)]
              ELSE IF body.inventorySource = "ground" /\ use # "ok"
              THEN crt' = [IdleCrt EXCEPT !.pc = "done", !.res = Res(400, use)]
              ELSE IF body.inventorySource = "ground" /\ body.splitLoad
              THEN IF body.secondaryGroundInventoryLot = NoLot
                   THEN crt' = [IdleCrt EXCEPT !.pc = "done",
                                   !.res = Res(400, "secondary lot required")]
                   ELSE IF body.secondaryGroundInventoryLot = body.groundInventoryLot
                   THEN crt' = [IdleCrt EXCEPT !.pc = "done",
                                   !.res = Res(400, "lots must differ")]
                   ELSE crt' = [IdleCrt EXCEPT !.pc = "checkSecondaryLot",
                                               !.body = body]
              ELSE crt' = [IdleCrt EXCEPT !.pc = "save", !.body = body]
    /\ UNCHANGED <<bols, lots, allocations, inv, upd, del, adj, adjc, adjd, rel, railcars, lotIndexes>>

CreateCheckPrimaryLot == CreateCheckPrimaryLotOf(CreateBodies)

\* Request bodies with weights in the thousands of pounds.
HeavyWeights == 1000..(1000 + MaxWeight)

HeavyCreateBodies ==
    [status : {"Draft"}, inventorySource : {"ground"},
     groundInventoryLot : {1}, secondaryGroundInventoryLot : {2},
     splitLoad : BOOLEAN,
     grossWeight : HeavyWeights \cup {NULL}, tareWeight : {NULL, 0}]

CreateCheckPrimaryLotHeavy == CreateCheckPrimaryLotOf(HeavyCreateBodies)

\* ensureGroundInventoryLotIsUsable on the secondary lot of a split create.
CreateCheckSecondaryLot ==
    /\ crt.pc = "checkSecondaryLot"
    /\ LET use == EnsureUsable(crt.body.secondaryGroundInventoryLot, "c1", "m1")
       IN  IF use # "ok"
           THEN crt' = [IdleCrt EXCEPT !.pc = "done", !.res = Res(400, use)]
           ELSE crt' = [crt EXCEPT !.pc = "save"]
    /\ UNCHANGED <<bols, lots, allocations, inv, upd, del, adj, adjc, adjd, rel, railcars, lotIndexes>>

\* The ids new BOL documents get.
NewBolIds == {b \in BolIds : ~bols[b].exists /\ ~InitBolExists(b)}

\* new BOL(bolData).save(): the document is stored in the requested status.
CreateSave ==
    /\ crt.pc = "save"
    /\ \E id \in NewBolIds :
          bols' = [bols EXCEPT ![id] = PreValidate(CreateDoc(crt.body))]
    /\ crt' = [IdleCrt EXCEPT !.pc = "done", !.res = Res(201, "created")]
    /\ UNCHANGED <<lots, allocations, inv, upd, del, adj, adjc, adjd, rel, railcars, lotIndexes>>

\* save() throws: nothing is stored.
CreateSaveThrows ==
    /\ crt.pc = "save"
    /\ crt' = [IdleCrt EXCEPT !.pc = "done", !.res = Res(500, "save failed")]
    /\ UNCHANGED <<bols, lots, allocations, inv, upd, del, adj, adjc, adjd, rel, railcars, lotIndexes>>

UpdateNext ==
    \/ UpdateFind
    \/ UpdateWrite

DeleteNext ==
    \/ DeleteFind
    \/ DeleteWrite

CreateNext ==
    \/ CreateCheckPrimaryLot
    \/ CreateCheckSecondaryLot
    \/ CreateSave
    \/ CreateSaveThrows

\* -------------------------------------------- PUT /adjustments/:id
AdjBodies == [startingWeight : Weights, remainingWeight : Weights]

IdleAdj ==
    [pc |-> "idle", id |-> 1, body |-> [startingWeight |-> 0, remainingWeight |-> 0],
     lot |-> NoLotDoc, res |-> NoRes]

\* GroundInventoryLot.findById and the checks that precede the aggregate.
AdjFind ==
    /\ adj.pc = "idle"
    /\ \E id \in LotIds, body \in AdjBodies :
          IF ~lots[id].exists
          THEN adj' = [IdleAdj EXCEPT !.pc = "done", !.res = Res(404, "lot not found")]
          ELSE IF lots[id].sourceType # "manual_adjustment"
          THEN adj' = [IdleAdj EXCEPT !.pc = "done", !.res = Res(400, "not manual")]
          ELSE IF body.remainingWeight > body.startingWeight
          THEN adj' = [IdleAdj EXCEPT !.pc = "done",
                                      !.res = Res(400, "remaining exceeds starting")]
          ELSE adj' = [IdleAdj EXCEPT !.pc = "aggregate", !.id = id, !.body = body,
                                      !.lot = lots[id]]
    /\ UNCHANGED <<bols, lots, allocations, inv, upd, del, crt, adjc, adjd, rel, railcars, lotIndexes>>

\* $match lotId, $sum allocatedWeight over the allocation ledger.
RECURSIVE SumAllocated(_, _)
SumAllocated(entries, lotId) ==
    IF entries = <<>> THEN 0
    ELSE (IF Head(entries).lotId = lotId THEN Head(entries).allocatedWeight ELSE 0)
         + SumAllocated(Tail(entries), lotId)

\* The aggregate over the lot's allocations and the starting-weight check.
AdjAggregate ==
    /\ adj.pc = "aggregate"
    /\ LET allocatedWeight == SumAllocated(allocations, adj.id)
       IN  IF adj.body.startingWeight < allocatedWeight
           THEN adj' = [IdleAdj EXCEPT !.pc = "done",
                                       !.res = Res(400, "starting below allocated")]
           ELSE adj' = [adj EXCEPT !.pc = "save"]
    /\ UNCHANGED <<bols, lots, allocations, inv, upd, del, crt, adjc, adjd, rel, railcars, lotIndexes>>

\* The lot document as the handler has assigned it before lot.save().
AdjDoc(lot, body) ==
    [lot EXCEPT !.startingWeight = body.startingWeight,
                !.remainingWeight = body.remainingWeight,
                !.status = IF body.remainingWeight > 0 THEN "available" ELSE "depleted"]

\* lot.save() of the edited lot.
AdjSave ==
    /\ adj.pc = "save"
    /\ lots[adj.id].exists
    /\ lots' = [lots EXCEPT ![adj.id] =
                   SaveModified(lots[adj.id], adj.lot, AdjDoc(adj.lot, adj.body))]
    /\ adj' = [IdleAdj EXCEPT !.pc = "done", !.res = Res(200, "adjustment updated")]
    /\ UNCHANGED <<bols, allocations, inv, upd, del, crt, adjc, adjd, rel, railcars, lotIndexes>>

\* ------------------------------------------------ POST /adjustments
AdjCreateBodies == [startingWeight : Weights, remainingWeight : Weights \cup {NULL}]

IdleAdjc == [pc |-> "idle", res |-> NoRes]

\* The ids new lot documents get.
NewLotIds ==
    LET free == {l \in LotIds : ~lots[l].exists}
    IN  {l \in free : \A k \in free : l <= k}

\* The remaining-weight check and GroundInventoryLot.create.
AdjCreate ==
    /\ adjc.pc = "idle"
    /\ \E body \in AdjCreateBodies :
          LET startingWeight == body.startingWeight
              remainingWeight == IF body.remainingWeight = NULL
                                 THEN startingWeight ELSE body.remainingWeight
          IN  IF remainingWeight > startingWeight
              THEN /\ adjc' = [pc |-> "done",
                               res |-> Res(400, "remaining exceeds starting")]
                   /\ lots' = lots
              ELSE /\ \E id \in NewLotIds :
                        lots' = [lots EXCEPT ![id] =
                                    [exists |-> TRUE, customerName |-> "c1",
                                     materialName |-> "m1",
                                     sourceType |-> "manual_adjustment",
                                     conversionToken |-> NoToken,
                                     startingWeight |-> startingWeight,
                                     remainingWeight |-> remainingWeight,
                                     status |-> IF remainingWeight > 0
                                                THEN "available" ELSE "depleted"]]
                   /\ adjc' = [pc |-> "done", res |-> Res(201, "adjustment created")]
    /\ UNCHANGED <<bols, allocations, inv, upd, del, crt, adj, adjd, rel, railcars, lotIndexes>>

\* ------------------------------------------- DELETE /adjustments/:id
IdleAdjd == [pc |-> "idle", id |-> 1, res |-> NoRes]

\* GroundInventoryLot.findById and the source-type check.
AdjDeleteFind ==
    /\ adjd.pc = "idle"
    /\ \E id \in LotIds :
          IF ~lots[id].exists
          THEN adjd' = [IdleAdjd EXCEPT !.pc = "done", !.res = Res(404, "lot not found")]
          ELSE IF lots[id].sourceType # "manual_adjustment"
          THEN adjd' = [IdleAdjd EXCEPT !.pc = "done", !.res = Res(400, "not manual")]
          ELSE adjd' = [IdleAdjd EXCEPT !.pc = "countDocuments", !.id = id]
    /\ UNCHANGED <<bols, lots, allocations, inv, upd, del, crt, adj, adjc, rel, railcars, lotIndexes>>

\* GroundInventoryAllocation.countDocuments({ lotId }).
CountAllocations(lotId) ==
    Cardinality({i \in 1..Len(allocations) : allocations[i].lotId = lotId})

AdjDeleteCount ==
    /\ adjd.pc = "countDocuments"
    /\ IF CountAllocations(adjd.id) > 0
       THEN adjd' = [IdleAdjd EXCEPT !.pc = "done",
                                     !.res = Res(409, "lot has allocations")]
       ELSE adjd' = [adjd EXCEPT !.pc = "deleteOne"]
    /\ UNCHANGED <<bols, lots, allocations, inv, upd, del, crt, adj, adjc, rel, railcars, lotIndexes>>

\* GroundInventoryLot.deleteOne({ _id }).
AdjDeleteWrite ==
    /\ adjd.pc = "deleteOne"
    /\ lots' = [lots EXCEPT ![adjd.id] = NoLotDoc]
    /\ adjd' = [adjd EXCEPT !.pc = "done", !.res = Res(200, "adjustment deleted")]
    /\ UNCHANGED <<bols, allocations, inv, upd, del, crt, adj, adjc, rel, railcars, lotIndexes>>

AdjDeleteNext ==
    \/ AdjDeleteFind
    \/ AdjDeleteCount
    \/ AdjDeleteWrite

AdjNext ==
    \/ AdjFind
    \/ AdjAggregate
    \/ AdjSave
    \/ AdjCreate

\* ---------------------------------------------- PUT /:id/release-empty
ReleaseRoles == {"customer", "internal", "admin"}

IdleRel ==
    [pc |-> "idle", id |-> 1, role |-> "internal", railcar |-> NoRailcarDoc,
     scoped |-> NoRailcarDoc, remainingWeight |-> 0, conversion |-> "none",
     lotId |-> NoLot, res |-> NoRes]

RelDone(p, r) == rel' = [rel EXCEPT ![p].pc = "done", ![p].res = r]
RelReject(p, r) == rel' = [rel EXCEPT ![p] = [IdleRel EXCEPT !.pc = "done", !.res = r]]

\* Railcar.findById, the customer scope check and the status check; the
\* loaded document is then marked Released in memory.
RelFind(p) ==
    /\ rel[p].pc = "idle"
    /\ \E id \in RailcarIds, role \in ReleaseRoles :
          LET railcar == railcars[id] IN
          IF ~railcar.exists
          THEN RelReject(p, Res(404, "Railcar not found"))
          ELSE IF role = "customer" /\ railcar.customerName # tokenCustomerId
          THEN RelReject(p, Res(403, "outside customer scope"))
          ELSE IF railcar.currentStatus \notin {"Available", "On-Spot"}
          THEN RelReject(p, Res(400, "not releasable"))
          ELSE rel' = [rel EXCEPT ![p] =
                          [IdleRel EXCEPT !.pc = "find", !.id = id, !.role = role,
                              !.railcar = [railcar EXCEPT !.currentStatus = "Released"]]]
    /\ UNCHANGED <<bols, lots, allocations, inv, upd, del, crt, adj, adjc, adjd, railcars, lotIndexes>>

\* fetchRailcarsWithComputedWeights: Railcar.find({ _id }).
RelFindRailcars(p) ==
    /\ rel[p].pc = "find"
    /\ rel' = [rel EXCEPT ![p].pc = "aggregate", ![p].scoped = railcars[rel[p].id]]
    /\ UNCHANGED <<bols, lots, allocations, inv, upd, del, crt, adj, adjc, adjd, railcars, lotIndexes>>

\* shouldConvertToGround.
shouldConvertToGround(role, railcar, remainingWeight) ==
    /\ role \in {"internal", "admin"}
    /\ enableGroundInventory(railcar.customerName)
    /\ railcar.materialName # ""
    /\ remainingWeight > 0

\* fetchRailcarsWithComputedWeights: BOL.aggregate, then the remaining
\* weight; Customer.findById reads a document no request of the model
\* writes, so its await is folded into this step.
RelAggregate(p) ==
    /\ rel[p].pc = "aggregate"
    /\ LET scoped == rel[p].scoped
           unloadedWeight == UnloadedWeight(BolIds, scoped.railcarID,
                                            scoped.customerName, scoped.railcarBolNumber)
           remainingWeight == RailcarRemainingWeight(scoped, unloadedWeight)
       IN  rel' = [rel EXCEPT
                     ![p].remainingWeight = remainingWeight,
                     ![p].pc = IF shouldConvertToGround(rel[p].role, rel[p].railcar,
                                                        remainingWeight)
                               THEN "findLot" ELSE "save"]
    /\ UNCHANGED <<bols, lots, allocations, inv, upd, del, crt, adj, adjc, adjd, railcars, lotIndexes>>

conversionToken(p) ==
    buildGroundConversionToken(rel[p].railcar.customerName, rel[p].railcar.railcarID,
                               rel[p].railcar.railcarBolNumber, rel[p].id)

\* The lots that carry a conversion token.
LotsWithToken(token) ==
    {l \in LotIds : lots[l].exists /\ lots[l].conversionToken = token}

\* GroundInventoryLot.findOne({ conversionToken }).
RelFindLot(p) ==
    /\ rel[p].pc = "findLot"
    /\ LET existing == LotsWithToken(conversionToken(p))
       IN  IF existing = {}
           THEN rel' = [rel EXCEPT ![p].pc = "create"]
           ELSE rel' = [rel EXCEPT ![p].pc = "save", ![p].conversion = "existing",
                                   ![p].lotId = CHOOSE l \in existing : TRUE]
    /\ UNCHANGED <<bols, lots, allocations, inv, upd, del, crt, adj, adjc, adjd, railcars, lotIndexes>>

\* The unique partial index on conversionToken, once built, refuses a
\* second document with the same non-empty token (E11000).
DuplicateKey(token) ==
    /\ TokenIndex \in lotIndexes
    /\ token # NoToken /\ LotsWithToken(token) # {}

\* Mutant: the lot starts from the reported weight of the railcar.
ConvertedLotReported(p) ==
    [exists |-> TRUE, customerName |-> rel[p].railcar.customerName,
     materialName |-> rel[p].railcar.materialName,
     sourceType |-> "railcar_conversion", conversionToken |-> conversionToken(p),
     startingWeight |-> rel[p].scoped.reportedWeight,
     remainingWeight |-> rel[p].scoped.reportedWeight, status |-> "available"]

\* The lot release-empty creates.
ConvertedLot(p) ==
    [exists |-> TRUE, customerName |-> rel[p].railcar.customerName,
     materialName |-> rel[p].railcar.materialName,
     sourceType |-> "railcar_conversion", conversionToken |-> conversionToken(p),
     startingWeight |-> rel[p].remainingWeight,
     remainingWeight |-> rel[p].remainingWeight, status |-> "available"]

\* GroundInventoryLot.create; a duplicate key error reaches the handler's
\* catch, which answers 500 without saving the railcar.
RelCreate(p) ==
    /\ rel[p].pc = "create"
    /\ IF DuplicateKey(conversionToken(p))
       THEN /\ RelDone(p, Res(500, "release failed"))
            /\ lots' = lots
       ELSE \E id \in NewLotIds :
               /\ lots' = [lots EXCEPT ![id] = ConvertedLot(p)]
               /\ rel' = [rel EXCEPT ![p].pc = "save", ![p].conversion = "created",
                                      ![p].lotId = id]
    /\ UNCHANGED <<bols, allocations, inv, upd, del, crt, adj, adjc, adjd, railcars, lotIndexes>>

\* create throws a storage error: nothing is stored.
RelCreateThrows(p) ==
    /\ rel[p].pc = "create"
    /\ RelDone(p, Res(500, "release failed"))
    /\ UNCHANGED <<bols, lots, allocations, inv, upd, del, crt, adj, adjc, adjd, railcars, lotIndexes>>

\* railcar.save(): the modified path is currentStatus.
RelSave(p) ==
    /\ rel[p].pc = "save"
    /\ railcars' = [railcars EXCEPT ![rel[p].id].currentStatus = "Released"]
    /\ RelDone(p, Res(200, IF rel[p].conversion = "created"
                           THEN "released and converted" ELSE "released"))
    /\ UNCHANGED <<bols, lots, allocations, inv, upd, del, crt, adj, adjc, adjd, lotIndexes>>

\* railcar.save() throws: a lot that was created stays.
RelSaveThrows(p) ==
    /\ rel[p].pc = "save"
    /\ RelDone(p, Res(500, "release failed"))
    /\ UNCHANGED <<bols, lots, allocations, inv, upd, del, crt, adj, adjc, adjd, railcars, lotIndexes>>

\* The railcars the import rows name, and the reported weights they carry:
\* none, the weight already unloaded, and a full car.
IngestRailcarIds == {1}

\* processRailcarImport: the upsert of one row sets the status and the
\* reported weight of the railcar it names.
ImportWeights == {0, 1, MaxWeight}

RailcarImport ==
    /\ \E id \in IngestRailcarIds, w \in ImportWeights :
          /\ railcars[id].exists
          /\ railcars' = [railcars EXCEPT ![id].currentStatus = "Available",
                                          ![id].reportedWeight = w,
                                          ![id].isActive = TRUE]
    /\ UNCHANGED <<bols, lots, allocations, inv, upd, del, crt, adj, adjc, adjd, rel, lotIndexes>>

ReleaseNext(P) ==
    \/ \E p \in P :
          \/ RelFind(p)
          \/ RelFindRailcars(p)
          \/ RelAggregate(p)
          \/ RelFindLot(p)
          \/ RelCreate(p)
          \/ RelCreateThrows(p)
          \/ RelSave(p)
          \/ RelSaveThrows(p)
    \/ RailcarImport

Railcar(customer, material, id, weight) ==
    [NoRailcarDoc EXCEPT !.exists = TRUE, !.customerName = customer,
                         !.materialName = material, !.railcarID = id,
                         !.railcarBolNumber = "S1", !.reportedWeight = weight,
                         !.currentStatus = "Available"]

InitRailcars ==
    [r \in RailcarIds |->
        IF r = 1 THEN Railcar("c1", "m1", "R1", MaxWeight)
        ELSE IF r = 2 THEN Railcar("c2", "m1", "R2", 1)
        ELSE IF r = 3 THEN Railcar("c1", "", "R3", 1)
        ELSE NoRailcarDoc]

\* ------------------------------------------------------------- initial
DraftGroundBol(primary, secondary) ==
    [NoBolDoc EXCEPT !.exists = TRUE, !.inventorySource = "ground",
                     !.customerName = "c1", !.materialName = "m1",
                     !.groundInventoryLot = primary,
                     !.secondaryGroundInventoryLot = secondary,
                     !.splitLoad = TRUE]

NewLot(source, token, weight) ==
    [exists |-> TRUE, customerName |-> "c1", materialName |-> "m1",
     sourceType |-> source, conversionToken |-> token,
     startingWeight |-> weight,
     remainingWeight |-> weight,
     status |-> IF weight > 0 THEN "available" ELSE "depleted"]

InitBols ==
    [b \in BolIds |-> IF ~InitBolExists(b) THEN NoBolDoc
                      ELSE IF b = 1 THEN DraftGroundBol(1, 2)
                      ELSE DraftGroundBol(2, 1)]

InitLots ==
    [l \in LotIds |-> IF l = 1 THEN NewLot("manual_adjustment", NoToken, 2)
                      ELSE IF l = 2
                      THEN NewLot("railcar_conversion", <<"c1", "R0", "S0", 0>>, 1)
                      ELSE NoLotDoc]

\* The state before any request, over a given BOL collection, a choice of
\* lot collections and a choice of index build outcomes.
InitWith(storedBols, lotChoices, indexChoices) ==
    /\ bols = storedBols
    /\ lots \in lotChoices
    /\ allocations = <<>>
    /\ inv = [p \in Procs |-> IdleInv]
    /\ upd = IdleUpd
    /\ del = IdleDel
    /\ crt = IdleCrt
    /\ adj = IdleAdj
    /\ adjc = IdleAdjc
    /\ adjd = IdleAdjd
    /\ rel = [p \in Procs |-> IdleRel]
    /\ railcars = InitRailcars
    /\ lotIndexes \in indexChoices

InitOf(storedBols) == InitWith(storedBols, {InitLots}, SUBSET {TokenIndex})

Init == InitOf(InitBols)

Next == CompleteNext(Procs)

Spec == Init /\ [][Next]_vars

\* One complete() invocation, an update and a delete request.
NextCrud == CompleteNext({"p1"}) \/ UpdateNext \/ DeleteNext

SpecCrud == Init /\ [][NextCrud]_vars

\* One complete() invocation, an update and a create request.
NextCreate == CompleteNext({"p1"}) \/ UpdateNext \/ CreateNext

SpecCreate == Init /\ [][NextCreate]_vars

\* One complete() invocation among manual adjustment requests.
NextAdj == CompleteNext({"p1"}) \/ AdjNext

SpecAdj == Init /\ [][NextAdj]_vars

\* One complete() invocation alone.
NextOne == CompleteNext({"p1"})

SpecOne == Init /\ [][NextOne]_vars

\* One complete() invocation and a lot delete request.
NextAdjDel == CompleteNext({"p1"}) \/ AdjDeleteNext

SpecAdjDel == Init /\ [][NextAdjDel]_vars

\* A Completed railcar-source BOL that unloaded one unit from railcar R1.
CompletedRailcarBol ==
    PreValidate([NoBolDoc EXCEPT !.exists = TRUE, !.status = "Completed",
                                 !.inventorySource = "railcar",
                                 !.customerName = "c1", !.materialName = "m1",
                                 !.railcarID = "R1", !.railShipmentBolNumber = "S1",
                                 !.grossWeight = 1, !.tareWeight = 0])

InitRel == InitOf([InitBols EXCEPT ![2] = CompletedRailcarBol])

\* Two release-empty invocations and the railcar import.
NextRel == ReleaseNext(Procs)

SpecRel == InitRel /\ [][NextRel]_vars

\* Draft BOLs that lack a reference: BOL 1 is linked to an Order that
\* supplies it, BOL 2 to an Order that does not, BOL 3 to no Order.
InitBackfillBols ==
    [b \in BolIds |->
        IF b = 1 THEN [DraftGroundBol(1, 2) EXCEPT !.materialName = "", !.orderNumber = 1]
        ELSE IF b = 2
        THEN [DraftGroundBol(2, 1) EXCEPT !.materialName = "", !.orderNumber = 2]
        ELSE [DraftGroundBol(1, 2) EXCEPT !.customerName = ""]]

InitBackfill == InitOf(InitBackfillBols)

NextBackfill == CompleteNext(Procs) \/ \E p \in Procs : CompleteBackfill(p)

SpecBackfill == InitBackfill /\ [][NextBackfill]_vars

\* One complete() invocation and a create request that carries heavy
\* weights.
NextWeigh ==
    \/ CompleteNext({"p1"})
    \/ CreateCheckPrimaryLotHeavy
    \/ CreateCheckSecondaryLot
    \/ CreateSave
    \/ CreateSaveThrows

SpecWeigh == Init /\ [][NextWeigh]_vars

\* Railcar R1 with one unit unloaded by Completed BOL 2, Draft
\* railcar-source BOL 1 still to unload it, and Draft ground BOL 3.
InitUnload ==
    InitWith([b \in BolIds |->
                 IF b = 1
                 THEN [NoBolDoc EXCEPT !.exists = TRUE, !.inventorySource = "railcar",
                                       !.customerName = "c1", !.materialName = "m1",
                                       !.railcarID = "R1"]
                 ELSE IF b = 2 THEN CompletedRailcarBol
                 ELSE DraftGroundBol(1, 2)],
             {InitLots}, {{}})

\* One complete() invocation and one release-empty invocation.
NextUnload ==
    \/ CompleteNext({"p1"})
    \/ RelFind("p1")
    \/ RelFindRailcars("p1")
    \/ RelAggregate("p1")
    \/ RelFindLot("p1")
    \/ RelCreate("p1")
    \/ RelCreateThrows("p1")
    \/ RelSave("p1")
    \/ RelSaveThrows("p1")

SpecUnload == InitUnload /\ [][NextUnload]_vars

\* Lot 1 as the usability check can find it: missing, usable, of another
\* customer, of another material, archived, or empty.
LedgerLot == NewLot("manual_adjustment", NoToken, 2)

LedgerLotChoices ==
    {NoLotDoc, LedgerLot,
     [LedgerLot EXCEPT !.customerName = "c2"],
     [LedgerLot EXCEPT !.materialName = "m2"],
     [LedgerLot EXCEPT !.status = "archived"],
     NewLot("manual_adjustment", NoToken, 0)}

InitLedger ==
    InitWith(InitBols, {[InitLots EXCEPT ![1] = lot] : lot \in LedgerLotChoices},
             {{}})

\* One complete() invocation and a manual adjustment edit.
NextLedger == CompleteNext({"p1"}) \/ AdjFind \/ AdjAggregate \/ AdjSave

SpecLedger == InitLedger /\ [][NextLedger]_vars

\* One complete() invocation and an update request that carries weights.
NextUpd == CompleteNext({"p1"}) \/ UpdateFindWeights \/ UpdateWrite

SpecUpd == Init /\ [][NextUpd]_vars

\* ===================================================================
\* Properties
\* ===================================================================

\* The legs of invocation p whose decrement is in the lot and has not been
\* restored, read off its position and its response.
PrimaryDebited(p) ==
    \/ inv[p].pc \in {"primaryStatus", "consumeSecondary", "secondaryStatus",
                      "restorePrimary", "save", "restorePrimaryAfterSave",
                      "insertMany"}
    \/ /\ inv[p].pc = "done"
       /\ inv[p].res.message \in {"primary status write threw",
                                  "secondary consume threw",
                                  "secondary status write threw",
                                  "completed", "insertMany threw"}
       /\ inv[p].bol.inventorySource = "ground"

SecondaryDebited(p) ==
    \/ inv[p].pc \in {"secondaryStatus", "save", "restorePrimaryAfterSave",
                      "restoreSecondaryAfterSave", "insertMany"}
    \/ /\ inv[p].pc = "done"
       /\ inv[p].res.message \in {"secondary status write threw",
                                  "completed", "insertMany threw"}
       /\ inv[p].bol.inventorySource = "ground"

\* The weight invocation p currently has debited from lot l.
Debit(p, l) ==
    (IF PrimaryDebited(p) /\ groundInventoryLotId(p) = l
        /\ inv[p].consumedPrimaryWeight > 0
     THEN inv[p].consumedPrimaryWeight ELSE 0)
    +
    (IF SecondaryDebited(p) /\ splitLoad(p) /\ secondaryGroundInventoryLotId(p) = l
        /\ inv[p].consumedSecondaryWeight > 0
     THEN inv[p].consumedSecondaryWeight ELSE 0)

RECURSIVE TotalDebit(_, _)
TotalDebit(P, l) ==
    IF P = {} THEN 0
    ELSE LET p == CHOOSE x \in P : TRUE
         IN  Debit(p, l) + TotalDebit(P \ {p}, l)

\* Lot l holds its starting weight less the debits of the invocations in P.
Conserved(P, l) ==
    lots[l].remainingWeight = lots[l].startingWeight - TotalDebit(P, l)

\* Invocation p has written its BOL (its save succeeded).
Saved(p) ==
    \/ inv[p].pc = "insertMany"
    \/ inv[p].pc = "done" /\ inv[p].res.message \in {"completed", "insertMany threw"}

\* No other invocation has written the BOL of p.
OnlyWriter(p) == \A q \in Procs \ {p} : Saved(q) => inv[q].id # inv[p].id

\* The stored BOL of p and the ledger are as if p had never run.
BolUntouched(p) ==
    /\ bols[inv[p].id] = InitBols[inv[p].id]
    /\ \A i \in 1..Len(allocations) : allocations[i].bolId # inv[p].id

\* C1: under every interleaving of complete() invocations no lot's
\* remainingWeight is negative, and the weights debited from a lot by the
\* consumes that succeeded and were not rolled back sum to at most the lot's
\* startingWeight.
C1Theorem ==
    \A l \in LotIds :
        lots[l].exists =>
            /\ lots[l].remainingWeight >= 0
            /\ TotalDebit(Procs, l) <= lots[l].startingWeight

\* Two invocations on different BOLs hold a debit on the same lot.
C1Witness ==
    \E p, q \in Procs, l \in LotIds :
        /\ inv[p].id # inv[q].id
        /\ Debit(p, l) > 0 /\ Debit(q, l) > 0

\* Invocation p returned because its secondary consume reported failure.
SecondaryConsumeFailed(p) ==
    inv[p].pc = "done" /\ inv[p].res.message = "secondary consume failed"

SaveFailed(p) ==
    inv[p].pc = "done" /\ inv[p].res.message = "save failed"

ConsumptionStepFailed(p) ==
    /\ inv[p].pc = "done"
    /\ inv[p].res.message \in {"primary consume failed", "primary consume threw",
                               "primary status write threw",
                               "secondary consume failed", "secondary consume threw",
                               "secondary status write threw"}

\* C4: any failure inside the consumption step, a storage error after a
\* successful decrement included, leaves every lot at its pre-call
\* remainingWeight and the BOL in Draft.
C4Claim ==
    \A p \in Procs :
        ConsumptionStepFailed(p) =>
            /\ \A l \in LotIds : lots[l].exists => Conserved(Procs \ {p}, l)
            /\ OnlyWriter(p) => BolUntouched(p)

\* C6: at most one complete() invocation succeeds for a BOL.
C6Claim ==
    \A p, q \in Procs :
        (p # q /\ inv[p].pc = "done" /\ inv[q].pc = "done"
         /\ inv[p].res.status = 200 /\ inv[q].res.status = 200)
            => inv[p].id # inv[q].id

\* C7: complete() on a BOL whose stored status is Completed answers with the
\* lock error at its first step, writes nothing to the BOLs, the lots or the
\* allocation ledger, and takes no further step.
C7Theorem ==
    [][\A p \in Procs :
          /\ (inv[p].pc = "idle" /\ inv'[p].pc # "idle"
              /\ bols[inv'[p].id].exists /\ bols[inv'[p].id].status = "Completed")
                => /\ inv'[p].pc = "done"
                   /\ inv'[p].res = Res(400, "locked")
                   /\ UNCHANGED <<bols, lots, allocations>>
          /\ (inv[p].pc = "done" /\ inv[p].res = Res(400, "locked"))
                => inv'[p] = inv[p]]_vars

\* A complete() was refused by the lock.
C7Witness ==
    \E p \in Procs : inv[p].pc = "done" /\ inv[p].res = Res(400, "locked")

\* C5: once a BOL is stored with status Completed it is never modified,
\* never deleted and never returns to Draft.
C5Claim ==
    [][\A b \in BolIds :
          (bols[b].exists /\ bols[b].status = "Completed") => bols'[b] = bols[b]]_vars

\* The weight a stored BOL has taken from lot l according to its legs.
LegWeight(b, l) ==
    (IF bols[b].groundInventoryLot = l /\ bols[b].primaryNetWeight # NULL
     THEN bols[b].primaryNetWeight ELSE 0)
    +
    (IF bols[b].secondaryGroundInventoryLot = l /\ bols[b].secondaryNetWeight # NULL
     THEN bols[b].secondaryNetWeight ELSE 0)

\* C8: every allocation entry references a stored Completed BOL, has a
\* positive weight equal to the weight of the BOL's leg on its lot, and is
\* the only entry of that BOL for that lot.
C8Claim ==
    \A i \in 1..Len(allocations) :
        LET e == allocations[i] IN
        /\ bols[e.bolId].exists
        /\ bols[e.bolId].status = "Completed"
        /\ e.allocatedWeight > 0
        /\ e.allocatedWeight = LegWeight(e.bolId, e.lotId)
        /\ \A j \in 1..Len(allocations) :
              (allocations[j].bolId = e.bolId /\ allocations[j].lotId = e.lotId)
                 => j = i

RECURSIVE CompletedWeight(_, _)
\* The weight the stored Completed ground BOLs in B have taken from lot l.
CompletedWeight(B, l) ==
    IF B = {} THEN 0
    ELSE LET b == CHOOSE x \in B : TRUE
         IN  (IF bols[b].exists /\ bols[b].status = "Completed"
                 /\ bols[b].inventorySource = "ground"
              THEN LegWeight(b, l) ELSE 0)
             + CompletedWeight(B \ {b}, l)

\* C9: the lots of every stored Completed ground BOL have been debited by
\* its consumed weight: each lot is short of its starting weight by at least
\* the weight the Completed ground BOLs have taken from it.
C9Claim ==
    \A l \in LotIds :
        lots[l].exists =>
            lots[l].startingWeight - lots[l].remainingWeight
                >= CompletedWeight(BolIds, l)

\* C10: the allocation entries of a lot sum to at most its startingWeight.
C10Claim ==
    \A l \in LotIds :
        lots[l].exists => SumAllocated(allocations, l) <= lots[l].startingWeight

\* A consume on lot l is between its decrement and its status write.
StatusWritePending(l) ==
    \E p \in Procs :
        \/ inv[p].pc = "primaryStatus" /\ groundInventoryLotId(p) = l
        \/ inv[p].pc = "secondaryStatus" /\ secondaryGroundInventoryLotId(p) = l

\* C11: for every non-archived lot, whenever no consume is between its
\* decrement and its status write, the status is depleted exactly when the
\* remaining weight is at most 0.
C11Claim ==
    \A l \in LotIds :
        (lots[l].exists /\ lots[l].status # "archived" /\ ~StatusWritePending(l))
            => (lots[l].status = "depleted" <=> lots[l].remainingWeight <= 0)

ConsumeStep ==
    \E p \in Procs :
        inv[p].pc \in {"consumePrimary", "consumeSecondary"} /\ inv'[p] # inv[p]

\* The step is a compensating restore of some invocation.
RestoreStep ==
    \E p \in Procs :
        /\ inv[p].pc \in {"restorePrimary", "restorePrimaryAfterSave",
                          "restoreSecondaryAfterSave"}
        /\ inv'[p] # inv[p]

\* The step is the save of a manual adjustment edit of lot l, the lot has no
\* allocation entries and still holds the remaining weight the edit read.
CleanAdjustmentStep(l) ==
    /\ adj.pc = "save" /\ adj'.pc = "done" /\ adj.id = l
    /\ SumAllocated(allocations, l) = 0
    /\ lots[l].remainingWeight = adj.lot.remainingWeight

\* C13: the remainingWeight of a lot changes only in the decrement of a
\* consume, in a compensating restore, or in a manual adjustment edit of a
\* lot that has no allocation entries and was not changed since the edit
\* read it.
C13Claim ==
    [][\A l \in LotIds :
          (lots[l].exists /\ lots'[l].exists
           /\ lots'[l].remainingWeight # lots[l].remainingWeight)
              => (ConsumeStep \/ RestoreStep \/ CleanAdjustmentStep(l))]_vars

\* C14: every allocation entry refers to a lot that exists, and every lot a
\* stored Completed ground BOL has taken weight from exists.
C14Claim ==
    /\ \A i \in 1..Len(allocations) : lots[allocations[i].lotId].exists
    /\ \A b \in BolIds, l \in LotIds :
          (bols[b].exists /\ bols[b].status = "Completed"
           /\ bols[b].inventorySource = "ground" /\ LegWeight(b, l) > 0)
              => lots[l].exists

\* C15: at most one lot carries a given conversion token, and a lot that
\* carries a token is never changed by a later conversion.
C15Claim ==
    /\ [](\A l, k \in LotIds :
            (lots[l].exists /\ lots[k].exists /\ lots[l].conversionToken # NoToken
             /\ lots[l].conversionToken = lots[k].conversionToken) => l = k)
    /\ [][\A l \in LotIds :
            (lots[l].exists /\ lots[l].conversionToken # NoToken)
                => lots'[l] = lots[l]]_vars

\* Release p succeeded on a railcar with a material, a customer with ground
\* inventory enabled and a positive remaining weight.
ReleasedConvertible(p) ==
    /\ rel[p].pc = "done" /\ rel[p].res.status = 200
    /\ rel[p].railcar.materialName # ""
    /\ enableGroundInventory(rel[p].railcar.customerName)
    /\ rel[p].remainingWeight > 0

\* Exactly one lot carries the token of release p; when p found none, that
\* lot is the one p created from the remaining weight.
ConvertedOnce(p) ==
    LET T == LotsWithToken(conversionToken(p)) IN
    /\ Cardinality(T) = 1
    /\ rel[p].conversion # "existing" =>
          \A l \in T :
              /\ rel[p].conversion = "created" /\ rel[p].lotId = l
              /\ lots[l].startingWeight = rel[p].remainingWeight
              /\ lots[l].remainingWeight = rel[p].remainingWeight
              /\ lots[l].status = "available"
              /\ lots[l].sourceType = "railcar_conversion"

\* C16 as claimed: a successful release by any actor (customer, internal or
\* admin) of a convertible railcar leaves exactly one lot for its token,
\* created with startingWeight = remainingWeight = R, status available and
\* sourceType railcar_conversion.
C16Claim == \A p \in Procs : ReleasedConvertible(p) => ConvertedOnce(p)

\* Release p ends with a lot for its token: the one its lookup found, or
\* the one it created from the remaining weight.
Converted(p) ==
    /\ rel[p].conversion \in {"created", "existing"}
    /\ rel[p].lotId \in LotsWithToken(conversionToken(p))
    /\ rel[p].conversion = "created" =>
          /\ lots[rel[p].lotId].startingWeight = rel[p].remainingWeight
          /\ lots[rel[p].lotId].remainingWeight = rel[p].remainingWeight
          /\ lots[rel[p].lotId].status = "available"
          /\ lots[rel[p].lotId].sourceType = "railcar_conversion"

ExistingLots == {l \in LotIds : lots[l].exists}

\* C16 as amended: a successful release by an internal or admin actor of a
\* convertible railcar whose lookup found no lot for its token has created
\* exactly one lot, with startingWeight = remainingWeight = R, status
\* available and sourceType railcar_conversion; a release by a customer
\* converts nothing; a release whose lookup finds the lot creates none.
C16Theorem ==
    /\ [](\A p \in Procs :
            ReleasedConvertible(p) =>
                IF rel[p].role \in {"internal", "admin"}
                THEN Converted(p)
                ELSE rel[p].conversion = "none")
    /\ [][\A p \in Procs :
            /\ (rel[p].pc = "findLot" /\ rel'[p] # rel[p]
                /\ LotsWithToken(conversionToken(p)) # {})
                  => /\ rel'[p].pc = "save" /\ rel'[p].conversion = "existing"
                     /\ lots' = lots
            /\ (rel[p].pc # "create" /\ rel'[p] # rel[p]) => lots' = lots
            /\ (rel[p].pc = "create" /\ rel'[p] # rel[p] /\ lots' # lots)
                  => /\ rel'[p].conversion = "created"
                     /\ ExistingLots' = ExistingLots \cup {rel'[p].lotId}
                     /\ rel'[p].lotId \notin ExistingLots]_vars

\* An internal or admin release created a lot from a railcar part of whose
\* reported weight had been unloaded, and a later release of the same
\* railcar found that lot.
C16Witness ==
    \E p, q \in Procs :
        /\ ReleasedConvertible(p) /\ rel[p].role \in {"internal", "admin"}
        /\ rel[p].conversion = "created"
        /\ rel[p].remainingWeight < rel[p].scoped.reportedWeight
        /\ ReleasedConvertible(q) /\ rel[q].conversion = "existing"
        /\ rel[q].id = rel[p].id /\ rel[q].lotId = rel[p].lotId

\* The positions of complete() that precede inventory consumption.
PreConsumptionPcs == {"idle", "backfill", "checks", "checkSecondaryLot"}

\* A rejection by a check that precedes inventory consumption.
PreConsumptionRejection(r) ==
    /\ r.status \in {400, 404}
    /\ r.message \notin {"primary consume failed", "secondary consume failed"}

\* C17: every step complete() takes before inventory consumption, the
\* backfill from the Order included, leaves the stored BOLs, the lots and
\* the allocation ledger unchanged, and a rejection by one of the checks
\* that precede consumption is answered from such a step: the stores are
\* as the invocation found them.
C17Theorem ==
    [][\A p \in Procs :
          /\ (inv[p].pc \in PreConsumptionPcs /\ inv'[p] # inv[p])
                => UNCHANGED <<bols, lots, allocations>>
          /\ (inv[p].pc # "done" /\ inv'[p].pc = "done"
              /\ PreConsumptionRejection(inv'[p].res))
                => inv[p].pc \in PreConsumptionPcs]_vars

\* A completion was rejected for a reference its Order could not supply,
\* and another for a failed check after a backfill that succeeded.
C17Witness ==
    \E p, q \in Procs :
        /\ inv[p].pc = "done" /\ inv[p].id = 2
        /\ inv[p].res = Res(400, "missing required fields")
        /\ inv[q].pc = "done" /\ inv[q].id = 1
        /\ inv[q].res = Res(400, "primary gross below tare")

\* Invocation p is about to consume more than its primary lot holds.
PrimaryInsufficient(p) ==
    /\ inv[p].pc = "consumePrimary"
    /\ lots[groundInventoryLotId(p)].exists
    /\ inv[p].consumedPrimaryWeight > lots[groundInventoryLotId(p)].remainingWeight

\* Invocation p is about to consume more than its secondary lot holds.
SecondaryInsufficient(p) ==
    /\ inv[p].pc = "consumeSecondary"
    /\ lots[secondaryGroundInventoryLotId(p)].exists
    /\ inv[p].consumedSecondaryWeight
          > lots[secondaryGroundInventoryLotId(p)].remainingWeight

\* C18: a consume that asks for more than the lot's remainingWeight writes
\* nothing (the lot keeps its remainingWeight and status), the completion
\* is answered with an error without a save and without an allocation
\* entry, and the invocation takes no step after its answer.
C18Theorem ==
    [][\A p \in Procs :
          /\ (PrimaryInsufficient(p) /\ inv'[p] # inv[p])
                => /\ inv'[p].pc = "done" /\ inv'[p].res.status \in {400, 500}
                   /\ UNCHANGED <<bols, lots, allocations>>
          /\ (SecondaryInsufficient(p) /\ inv'[p] # inv[p])
                => /\ inv'[p].pc \in {"restorePrimary", "done"}
                   /\ inv'[p].pc = "done" => inv'[p].res.status \in {400, 500}
                   /\ UNCHANGED <<bols, lots, allocations>>
          /\ (inv[p].pc = "restorePrimary" /\ inv'[p] # inv[p])
                => /\ inv'[p].pc = "done" /\ inv'[p].res.status = 400
                   /\ UNCHANGED <<bols, allocations>>
                   /\ lots'[secondaryGroundInventoryLotId(p)]
                        = lots[secondaryGroundInventoryLotId(p)]
          /\ inv[p].pc = "done" => inv'[p] = inv[p]]_vars

\* A completion failed on a secondary lot that holds less than it asked
\* for; the lot still holds its weight and the BOL is a Draft.
C18Witness ==
    \E p \in Procs :
        /\ SecondaryConsumeFailed(p)
        /\ lots[secondaryGroundInventoryLotId(p)].exists
        /\ lots[secondaryGroundInventoryLotId(p)].remainingWeight > 0
        /\ inv[p].consumedSecondaryWeight
              > lots[secondaryGroundInventoryLotId(p)].remainingWeight
        /\ bols[inv[p].id].status = "Draft"

\* The only invocation of the single-completion specification.
OnlyProc == "p1"

\* The invocation completed a ground BOL without a split load for a
\* positive net weight.
CompletedNonSplitGround(p) ==
    /\ inv[p].pc = "done" /\ inv[p].res = Res(200, "completed")
    /\ inventorySource(p) = "ground" /\ ~splitLoad(p)
    /\ primaryGrossWeight(p) - primaryTareWeight(p) > 0

\* The ledger entries of BOL b.
EntriesOf(b) == {i \in DOMAIN allocations : allocations[i].bolId = b}

\* C19: a successful non-split ground completion with weights (gross, tare)
\* on a lot that held r >= gross - tare > 0 leaves the lot with
\* remainingWeight r - (gross - tare), status available when that is
\* positive and depleted when it is zero, exactly one allocation entry of
\* gross - tare for the BOL on that lot, and the BOL Completed with
\* netWeight gross - tare.
C19Theorem ==
    CompletedNonSplitGround(OnlyProc) =>
        LET l == groundInventoryLotId(OnlyProc)
            b == inv[OnlyProc].id
            w == primaryGrossWeight(OnlyProc) - primaryTareWeight(OnlyProc)
            r == InitLots[l].remainingWeight
        IN  /\ r >= w
            /\ lots[l].remainingWeight = r - w
            /\ lots[l].status = IF r - w > 0 THEN "available" ELSE "depleted"
            /\ Cardinality(EntriesOf(b)) = 1
            /\ \A i \in EntriesOf(b) : allocations[i] = AllocationEntry(l, b, w)
            /\ bols[b].status = "Completed"
            /\ bols[b].netWeight = w

\* A completion took everything its lot held, and the lot is depleted.
C19Witness ==
    /\ CompletedNonSplitGround(OnlyProc)
    /\ lots[groundInventoryLotId(OnlyProc)].remainingWeight = 0
    /\ lots[groundInventoryLotId(OnlyProc)].status = "depleted"
    /\ Len(allocations) = 1

\* The stored BOLs that carry both primary weights.
WeighedBols ==
    {b \in BolIds : /\ bols[b].exists
                    /\ bols[b].grossWeight # NULL /\ bols[b].tareWeight # NULL}

HasSecondaryWeights(d) ==
    d.splitLoad /\ d.secondaryGrossWeight # NULL /\ d.secondaryTareWeight # NULL

\* The net weights of a stored BOL are the differences and their sum.
NetWeightsExact(d) ==
    /\ d.primaryNetWeight = d.grossWeight - d.tareWeight
    /\ IF HasSecondaryWeights(d)
       THEN /\ d.secondaryNetWeight = d.secondaryGrossWeight - d.secondaryTareWeight
            /\ d.netWeight = d.primaryNetWeight + d.secondaryNetWeight
       ELSE d.netWeight = d.primaryNetWeight

\* t is the binary64 number nearest to n / 2000: the exact value of
\* t * 2000 is n + err / 2^scale with |err| at most half the divisor.
NearestQuotient(t, n) ==
    /\ t.num = n
    /\ 2 * (IF t.err < 0 THEN 0 - t.err ELSE t.err) <= TonDivisor

\* C20 as claimed: every BOL saved with both primary weights has
\* primaryNetWeight = grossWeight - tareWeight, secondaryNetWeight and
\* netWeight as the difference and the sum, and both primaryTonWeight * 2000
\* = primaryNetWeight and tonWeight * 2000 = netWeight.
C20Claim ==
    \A b \in WeighedBols :
        /\ NetWeightsExact(bols[b])
        /\ TimesDivisorIs(bols[b].primaryTonWeight, bols[b].primaryNetWeight)
        /\ TimesDivisorIs(bols[b].tonWeight, bols[b].netWeight)

\* C20 as amended: the net weights are exact, and primaryTonWeight and
\* tonWeight are the binary64 numbers nearest to primaryNetWeight / 2000
\* and netWeight / 2000.
C20Theorem ==
    \A b \in WeighedBols :
        /\ NetWeightsExact(bols[b])
        /\ NearestQuotient(bols[b].primaryTonWeight, bols[b].primaryNetWeight)
        /\ NearestQuotient(bols[b].tonWeight, bols[b].netWeight)

\* A split load was saved with a positive secondary net weight, and a BOL
\* was saved whose ton weight is not an exact quotient.
C20Witness ==
    /\ \E b \in WeighedBols :
          /\ HasSecondaryWeights(bols[b]) /\ bols[b].secondaryNetWeight > 0
          /\ bols[b].primaryNetWeight > 0
    /\ \E b \in WeighedBols : bols[b].tonWeight.err # 0

\* The derived weight fields of a stored BOL are the ones the hook computes
\* from its stored gross and tare weights.
DerivedRecomputed(d) ==
    /\ NetWeightsExact(d)
    /\ d.secondaryNetWeight
         = (IF HasSecondaryWeights(d)
            THEN d.secondaryGrossWeight - d.secondaryTareWeight ELSE NULL)
    /\ d.tonWeight = DivideBy2000(d.netWeight)

\* C21: every stored BOL with both gross and tare weights has grossWeight
\* >= tareWeight (and secondaryGrossWeight >= secondaryTareWeight when
\* split), and its derived fields equal the values recomputed from its
\* stored gross and tare weights.
C21Claim ==
    \A b \in WeighedBols :
        /\ bols[b].grossWeight >= bols[b].tareWeight
        /\ HasSecondaryWeights(bols[b])
              => bols[b].secondaryGrossWeight >= bols[b].secondaryTareWeight
        /\ DerivedRecomputed(bols[b])

\* The customers and materials a check can be asked about.
ExpectedCustomers == {"c1", "c2"}
ExpectedMaterials == {"m1", "m2"}

\* Lot l exists, belongs to customer c and material m, is not archived and
\* holds weight.
Usable(l, c, m) ==
    /\ l \in LotIds /\ lots[l].exists
    /\ lots[l].customerName = c /\ lots[l].materialName = m
    /\ lots[l].status # "archived" /\ lots[l].remainingWeight > 0

\* A step of p that is one of its usability checks on a ground BOL.
PrimaryCheckStep(p) ==
    inv[p].pc = "checks" /\ inv'[p] # inv[p] /\ inventorySource(p) = "ground"
SecondaryCheckStep(p) ==
    inv[p].pc = "checkSecondaryLot" /\ inv'[p] # inv[p]

\* C22: the usability check succeeds exactly for an existing lot of the
\* expected customer and material that is not archived and has
\* remainingWeight > 0, complete() is rejected with 400 when the check of
\* one of its lots fails, and the check never modifies a lot.
C22Theorem ==
    /\ [](\A l \in LotIds \cup {NoLot}, c \in ExpectedCustomers,
             m \in ExpectedMaterials :
             (EnsureUsable(l, c, m) = "ok") <=> Usable(l, c, m))
    /\ [][\A p \in Procs :
            /\ (PrimaryCheckStep(p) \/ SecondaryCheckStep(p)) => lots' = lots
            /\ (PrimaryCheckStep(p)
                /\ ~Usable(groundInventoryLotId(p), inv[p].bol.customerName,
                           inv[p].bol.materialName))
                  => inv'[p].pc = "done" /\ inv'[p].res.status = 400
            /\ (SecondaryCheckStep(p)
                /\ ~Usable(secondaryGroundInventoryLotId(p), inv[p].bol.customerName,
                           inv[p].bol.materialName))
                  => inv'[p].pc = "done" /\ inv'[p].res.status = 400
            /\ (PrimaryCheckStep(p) /\ inv'[p].pc = "done"
                /\ inv'[p].res.message = "lot not available")
                  => ~Usable(groundInventoryLotId(p), inv[p].bol.customerName,
                             inv[p].bol.materialName)]_vars

\* A completion was rejected because its lot, which holds weight, is
\* archived.
C22Witness ==
    \E p \in Procs :
        /\ inv[p].pc = "done" /\ inv[p].id = 1
        /\ inv[p].res = Res(400, "lot not available")
        /\ lots[1].status = "archived" /\ lots[1].remainingWeight > 0

\* A step of p that is a zero-weight consume whose storage call returns.
ZeroPrimaryConsume(p) ==
    /\ inv[p].pc = "consumePrimary" /\ inv[p].consumedPrimaryWeight = 0
    /\ inv'[p] # inv[p] /\ inv'[p].res.status # 500
ZeroSecondaryConsume(p) ==
    /\ inv[p].pc = "consumeSecondary" /\ inv[p].consumedSecondaryWeight = 0
    /\ inv'[p] # inv[p] /\ inv'[p].res.status # 500

\* C23 as claimed: a consume of weight 0 changes no lot, and it succeeds
\* exactly when the usability check of the lot succeeds.
C23Claim ==
    [][\A p \in Procs :
          /\ ZeroPrimaryConsume(p) =>
                /\ lots' = lots
                /\ (inv'[p].pc # "done")
                     <=> Usable(groundInventoryLotId(p), inv[p].bol.customerName,
                                inv[p].bol.materialName)
          /\ ZeroSecondaryConsume(p) =>
                /\ lots' = lots
                /\ (inv'[p].pc \notin {"done", "restorePrimary"})
                     <=> Usable(secondaryGroundInventoryLotId(p),
                                inv[p].bol.customerName, inv[p].bol.materialName)]_vars

\* Lot l exists, belongs to customer c and material m and is not archived.
Matching(l, c, m) ==
    /\ l \in LotIds /\ lots[l].exists
    /\ lots[l].customerName = c /\ lots[l].materialName = m
    /\ lots[l].status # "archived"

\* C23 as amended: a consume of weight 0 changes no lot, and it succeeds
\* exactly for an existing lot of the expected customer and material that
\* is not archived, whatever its remainingWeight.
C23Theorem ==
    [][\A p \in Procs :
          /\ ZeroPrimaryConsume(p) =>
                /\ lots' = lots
                /\ (inv'[p].pc # "done")
                     <=> Matching(groundInventoryLotId(p), inv[p].bol.customerName,
                                  inv[p].bol.materialName)
          /\ ZeroSecondaryConsume(p) =>
                /\ lots' = lots
                /\ (inv'[p].pc \notin {"done", "restorePrimary"})
                     <=> Matching(secondaryGroundInventoryLotId(p),
                                  inv[p].bol.customerName, inv[p].bol.materialName)]_vars

\* A completion of net weight 0 went past its consume on a lot that holds
\* nothing.
C23Witness ==
    \E p \in Procs :
        /\ inv[p].pc \in {"save", "done"} /\ ~splitLoad(p)
        /\ inv[p].consumedPrimaryWeight = 0
        /\ inv[p].consumedPrimaryLot # NoLot
        /\ lots[inv[p].consumedPrimaryLot].remainingWeight = 0
        /\ lots[inv[p].consumedPrimaryLot].status = "depleted"

\* The invocation completed a split ground BOL.
CompletedSplitGround(p) ==
    /\ inv[p].pc = "done" /\ inv[p].res = Res(200, "completed")
    /\ inventorySource(p) = "ground" /\ splitLoad(p)

\* The allocated weight of the ledger entries of BOL b on lot l.
EntryWeights(b, l) ==
    {allocations[i].allocatedWeight : i \in {j \in EntriesOf(b) : allocations[j].lotId = l}}

\* C24: after a successful split ground completion the BOL's
\* groundInventoryAllocatedWeight is the weight debited from the primary
\* lot, its secondaryGroundInventoryAllocatedWeight is the weight debited
\* from the secondary lot, and each equals the allocatedWeight of the
\* allocation entry of that lot.
C24Claim ==
    CompletedSplitGround(OnlyProc) =>
        LET b == inv[OnlyProc].id
            l1 == groundInventoryLotId(OnlyProc)
            l2 == secondaryGroundInventoryLotId(OnlyProc)
        IN  /\ bols[b].groundInventoryAllocatedWeight
                 = InitLots[l1].remainingWeight - lots[l1].remainingWeight
            /\ bols[b].secondaryGroundInventoryAllocatedWeight
                 = InitLots[l2].remainingWeight - lots[l2].remainingWeight
            /\ \A w \in EntryWeights(b, l1) : w = bols[b].groundInventoryAllocatedWeight
            /\ \A w \in EntryWeights(b, l2) :
                   w = bols[b].secondaryGroundInventoryAllocatedWeight

\* The invocation's insertMany failed.
AllocationFailed(p) ==
    inv[p].pc = "done" /\ inv[p].res = Res(500, "insertMany threw")

\* What lot l holds less than at the start.
Missing(l) == InitLots[l].remainingWeight - lots[l].remainingWeight

\* C25: when recording the allocation entries fails after the save, no
\* compensation runs: the BOL is Completed, each consumed lot stays debited
\* by the consumed weight, no entry of the BOL is in the ledger, the caller
\* gets an error, and the weight missing from the lots is the BOL's net
\* weight.
C25Theorem ==
    AllocationFailed(OnlyProc) =>
        LET b == inv[OnlyProc].id
            l1 == groundInventoryLotId(OnlyProc)
            l2 == secondaryGroundInventoryLotId(OnlyProc)
        IN  /\ bols[b].status = "Completed"
            /\ EntriesOf(b) = {}
            /\ Missing(l1) = inv[OnlyProc].consumedPrimaryWeight
            /\ IF splitLoad(OnlyProc)
               THEN /\ Missing(l2) = inv[OnlyProc].consumedSecondaryWeight
                    /\ Missing(l1) + Missing(l2) = bols[b].netWeight
               ELSE Missing(l1) = bols[b].netWeight
            /\ \A l \in LotIds \ {l1, l2} : lots[l] = InitLots[l]

\* The allocation insert of a split completion that took weight from both
\* lots failed.
C25Witness ==
    /\ AllocationFailed(OnlyProc) /\ splitLoad(OnlyProc)
    /\ inv[OnlyProc].consumedPrimaryWeight > 0
    /\ inv[OnlyProc].consumedSecondaryWeight > 0

\* The request of p is a split load whose secondary gross weight is below
\* its primary gross weight.
SecondaryBelowPrimary(p) ==
    /\ inv[p].pc # "idle" /\ splitLoad(p)
    /\ inv[p].body.secondaryGrossWeight # NULL
    /\ inv[p].body.secondaryGrossWeight < inv[p].body.grossWeight

\* C26: a split-load completion stores secondaryTareWeight = the primary
\* grossWeight of the request whatever secondaryTareWeight the body
\* carries, hence secondaryNetWeight = secondaryGrossWeight - grossWeight
\* and netWeight = secondaryGrossWeight - tareWeight; a split request with
\* secondaryGrossWeight < grossWeight is rejected with nothing written.
C26Theorem ==
    /\ (inv[OnlyProc].pc = "done" /\ inv[OnlyProc].res.status \in {200, 500}
        /\ splitLoad(OnlyProc) /\ bols[inv[OnlyProc].id].status = "Completed") =>
          LET d == bols[inv[OnlyProc].id]
              body == inv[OnlyProc].body
          IN  /\ d.splitLoad
              /\ d.grossWeight = body.grossWeight
              /\ d.secondaryTareWeight = body.grossWeight
              /\ d.secondaryNetWeight = body.secondaryGrossWeight - body.grossWeight
              /\ d.netWeight = body.secondaryGrossWeight - body.tareWeight
    /\ SecondaryBelowPrimary(OnlyProc) =>
          /\ inv[OnlyProc].pc \in PreConsumptionPcs
          /\ bols = InitBols /\ lots = InitLots /\ allocations = <<>>
    /\ (inv[OnlyProc].pc = "done"
        /\ inv[OnlyProc].res = Res(400, "secondary gross below tare")) =>
          bols = InitBols /\ lots = InitLots /\ allocations = <<>>

\* A split completion whose body carried its own secondary tare weight was
\* stored with the primary gross weight in its place.
C26Witness ==
    /\ inv[OnlyProc].pc = "done" /\ inv[OnlyProc].res = Res(200, "completed")
    /\ splitLoad(OnlyProc)
    /\ inv[OnlyProc].body.secondaryTareWeight # NULL
    /\ inv[OnlyProc].body.secondaryTareWeight # inv[OnlyProc].body.grossWeight
    /\ bols[inv[OnlyProc].id].secondaryTareWeight = inv[OnlyProc].body.grossWeight
    /\ bols[inv[OnlyProc].id].secondaryNetWeight > 0

\* Invocation p has answered with an error without having saved its BOL.
FailureObserved(p) ==
    /\ inv[p].pc = "done" /\ inv[p].res.status \in {400, 404, 500}
    /\ ~Saved(p)

\* C27: whenever the caller has the failure response of an invocation, no
\* lot carries a debit of that invocation any more: every lot holds its
\* starting weight less the debits of the other invocations only.
C27Claim ==
    \A p \in Procs :
        FailureObserved(p) =>
            \A l \in LotIds : lots[l].exists => Conserved(Procs \ {p}, l)

\* No complete() invocation is in flight and no allocation insert failed.
LedgerAtRest ==
    \A p \in Procs :
        /\ inv[p].pc \in {"idle", "done"}
        /\ inv[p].res.message # "insertMany threw"

\* C28: when no complete() invocation is in flight, no adjustment edit was
\* applied and no allocation insert failed, every lot is short of its
\* starting weight by the sum of its allocation entries, and that sum is
\* the weight the Completed ground BOLs have taken from the lot.
C28Claim ==
    LedgerAtRest =>
        \A l \in LotIds :
            lots[l].exists =>
                /\ lots[l].startingWeight - lots[l].remainingWeight
                     = SumAllocated(allocations, l)
                /\ SumAllocated(allocations, l) = CompletedWeight(BolIds, l)

\* The starting weights of the lots converted from railcar r.
RECURSIVE ConvertedWeight(_, _)
ConvertedWeight(L, r) ==
    IF L = {} THEN 0
    ELSE LET l == CHOOSE x \in L : TRUE
         IN  (IF lots[l].exists
                 /\ lots[l].conversionToken
                      = buildGroundConversionToken(railcars[r].customerName,
                                                   railcars[r].railcarID,
                                                   railcars[r].railcarBolNumber, r)
              THEN lots[l].startingWeight ELSE 0)
             + ConvertedWeight(L \ {l}, r)

\* C29: railcar weight is not spent twice across a release: for every
\* railcar shipment with a reported weight, the starting weight of the lot
\* converted from it plus the net weight of the Completed BOLs that unloaded
\* the railcar is at most the reported weight.
C29Claim ==
    \A r \in RailcarIds :
        (railcars[r].exists /\ railcars[r].reportedWeight # NULL) =>
            ConvertedWeight(LotIds, r)
              + UnloadedWeight(BolIds, railcars[r].railcarID,
                               railcars[r].customerName,
                               railcars[r].railcarBolNumber)
              <= railcars[r].reportedWeight

====
